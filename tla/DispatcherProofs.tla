-------------------------- MODULE DispatcherProofs --------------------------
(***************************************************************************)
(* Proofs about Dispatcher for every set of subscriptions, every number of *)
(* goroutines and notifications, every batch size and every schedule.      *)
(***************************************************************************)
EXTENDS Dispatcher, SequenceTheorems, TLAPS

(***************************************************************************)
(* Sequences                                                               *)
(***************************************************************************)

\* What is appended is added to what a sequence holds.
LEMMA RangeAppend ==
  ASSUME NEW S, NEW s \in Seq(S), NEW e \in S
  PROVE  Range(Append(s, e)) = Range(s) \cup {e}
BY AppendProperties DEF Range

\* A batch joined to another holds what either held.
LEMMA RangeJoin ==
  ASSUME NEW S, NEW s \in Seq(S), NEW t \in Seq(S)
  PROVE  Range(s \o t) = Range(s) \cup Range(t)
BY RangeConcatenation

\* Head and Tail split what a non-empty sequence holds.
LEMMA RangeHeadTail ==
  ASSUME NEW S, NEW s \in Seq(S), s # <<>>
  PROVE  /\ Head(s) \in S
         /\ Tail(s) \in Seq(S)
         /\ Range(s) = {Head(s)} \cup Range(Tail(s))
<1>1. Head(s) \in S /\ Tail(s) \in Seq(S) /\ Len(Tail(s)) = Len(s) - 1
  BY HeadTailProperties
<1>2. \A i \in 1..Len(Tail(s)) : Tail(s)[i] = s[i + 1]
  BY HeadTailProperties
<1>3. Len(s) \in Nat \ {0} /\ DOMAIN s = 1..Len(s) /\ DOMAIN Tail(s) = 1..Len(Tail(s))
  BY <1>1, EmptySeq, LenProperties
<1>4. Head(s) = s[1]
  BY <1>3
<1>5. \A i \in 1..Len(s) : i = 1 \/ (i - 1 \in 1..Len(Tail(s)) /\ Tail(s)[i - 1] = s[i])
  BY <1>1, <1>2, <1>3
<1>6. ASSUME NEW x \in Range(s) PROVE x \in {Head(s)} \cup Range(Tail(s))
  BY <1>3, <1>4, <1>5 DEF Range
<1>7. ASSUME NEW x \in Range(Tail(s)) PROVE x \in Range(s)
  <2>1. PICK i \in 1..Len(Tail(s)) : x = Tail(s)[i]
    BY <1>3 DEF Range
  <2>2. i + 1 \in 1..Len(s) /\ x = s[i + 1]
    BY <2>1, <1>1, <1>2, <1>3
  <2>. QED  BY <2>2, <1>3 DEF Range
<1>8. Head(s) \in Range(s)
  BY <1>3, <1>4 DEF Range
<1>. QED  BY <1>1, <1>6, <1>7, <1>8

\* Cutting a sequence in two loses nothing.
LEMMA RangeCut ==
  ASSUME NEW S, NEW s \in Seq(S), NEW c \in 0..Len(s)
  PROVE  /\ SubSeq(s, 1, c) \in Seq(S)
         /\ SubSeq(s, c + 1, Len(s)) \in Seq(S)
         /\ SubSeq(s, 1, c) \o SubSeq(s, c + 1, Len(s)) = s
         /\ Range(s) = Range(SubSeq(s, 1, c)) \cup Range(SubSeq(s, c + 1, Len(s)))
<1>1. SubSeq(s, 1, c) \in Seq(S) /\ SubSeq(s, c + 1, Len(s)) \in Seq(S)
  BY SubSeqProperties
<1>2. SubSeq(s, 1, c) \o SubSeq(s, c + 1, Len(s)) = s
  <2>1. Len(s) \in Nat
    BY LenProperties
  <2>2. 1 \in 1..Len(s) + 1 /\ c \in (1 - 1)..Len(s) /\ Len(s) \in c..Len(s)
    BY <2>1
  <2>3. SubSeq(s, 1, c) \o SubSeq(s, c + 1, Len(s)) = SubSeq(s, 1, Len(s))
    BY <2>2, ConcatAdjacentSubSeq
  <2>. QED  BY <2>3, SubSeqFull
<1>. QED  BY <1>1, <1>2, RangeJoin, ZenonT(40)

-----------------------------------------------------------------------------
(***************************************************************************)
(* Goroutines                                                              *)
(***************************************************************************)

\* What a goroutine carries at each control point: a caller has something to
\* hand over and no batch, one asleep is at some retry, one that looks for
\* work has none yet.
Wellformed(g) ==
  /\ g \in Goroutine
  /\ g.pc \in {"park", "append"} => g.todo # <<>> /\ g.batch = <<>>
  /\ g.pc = "wait" => g.retry \in 1..MaxRetries
  /\ g.pc \in {"idle", "flush", "redeliver"} => g.batch = <<>> /\ g.todo = <<>>
  /\ g.pc = "lookup" => g.todo = <<>>
  /\ g.pc = "deactivate" => g.batch = <<>>

\* A goroutine with nothing to do is well formed.
LEMMA IdleWellformed ==
  /\ Wellformed(Idle)
  /\ Idle.pc = "idle" /\ Idle.batch = <<>> /\ Idle.todo = <<>>
<1>1. (CHOOSE s \in Subs : TRUE) \in Subs /\ (CHOOSE k \in BatchSizes : TRUE) \in BatchSizes
  BY DispatcherAssumption
<1>. QED  BY <1>1, DispatcherAssumption DEF Idle, Goroutine, Points, Wellformed

\* A goroutine that starts anywhere has nothing in hand yet.
LEMMA AtFields ==
  ASSUME NEW pc \in Points, NEW s \in Subs
  PROVE  /\ At(pc, s) \in Goroutine
         /\ At(pc, s).pc = pc /\ At(pc, s).sub = s
         /\ At(pc, s).batch = <<>> /\ At(pc, s).todo = <<>>
<1>1. Idle \in Goroutine /\ Idle.batch = <<>> /\ Idle.todo = <<>>
  BY IdleWellformed DEF Wellformed
<1>. QED  BY <1>1 DEF At, Goroutine

\* The points a goroutine can stand at with nothing in hand.
LEMMA AtWellformed ==
  ASSUME NEW pc \in {"idle", "flush", "redeliver"}, NEW s \in Subs
  PROVE  /\ Wellformed(At(pc, s))
         /\ At(pc, s).pc = pc /\ At(pc, s).sub = s
         /\ At(pc, s).batch = <<>> /\ At(pc, s).todo = <<>>
<1>1. pc \in Points
  BY DEF Points
<1>. QED  BY <1>1, AtFields DEF Wellformed

\* So is one that has taken a batch from the queue.
LEMMA LookupWellformed ==
  ASSUME NEW s \in Subs, NEW batch \in Seq(Notes)
  PROVE  LET g == [At("lookup", s) EXCEPT !.batch = batch]
         IN  Wellformed(g) /\ g.pc = "lookup" /\ g.batch = batch /\ g.todo = <<>>
<1>1. "lookup" \in Points
  BY DEF Points
<1>. QED  BY <1>1, AtFields DEF Wellformed, Goroutine

\* So is one that hands notifications to Enqueue.
LEMMA CallerWellformed ==
  ASSUME NEW s \in Subs, NEW items \in Seq(Notes), items # <<>>, NEW fl \in BOOLEAN
  PROVE  /\ Wellformed(Caller(s, items, fl))
         /\ Caller(s, items, fl).pc = "park" /\ Caller(s, items, fl).sub = s
         /\ Caller(s, items, fl).batch = <<>> /\ Caller(s, items, fl).todo = items
<1>. DEFINE a == At("park", s)
<1>1. a \in Goroutine /\ a.pc = "park" /\ a.sub = s /\ a.batch = <<>>
  <2>. "park" \in Points
    BY DEF Points
  <2>. QED  BY AtFields
<1>. HIDE DEF a
<1>2. /\ Caller(s, items, fl) \in Goroutine
      /\ Caller(s, items, fl).pc = "park" /\ Caller(s, items, fl).sub = s
      /\ Caller(s, items, fl).batch = <<>> /\ Caller(s, items, fl).todo = items
  <2>1. Caller(s, items, fl) = [a EXCEPT !.todo = items, !.flush = fl]
    BY DEF Caller, a
  <2>. QED  BY <1>1, <2>1 DEF Goroutine
<1>. QED  BY <1>2 DEF Wellformed

\* So is one that delivers a batch.
LEMMA CourierWellformed ==
  ASSUME NEW s \in Subs, NEW batch \in Seq(Notes)
  PROVE  /\ Wellformed(Courier(s, batch))
         /\ Courier(s, batch).pc = "deliver" /\ Courier(s, batch).sub = s
         /\ Courier(s, batch).batch = batch /\ Courier(s, batch).todo = <<>>
<1>1. "deliver" \in Points
  BY DEF Points
<1>2. /\ Courier(s, batch) \in Goroutine
      /\ Courier(s, batch).pc = "deliver" /\ Courier(s, batch).sub = s
      /\ Courier(s, batch).batch = batch /\ Courier(s, batch).todo = <<>>
  BY <1>1, AtFields DEF Courier, Goroutine
<1>. QED  BY <1>2 DEF Wellformed

\* A release carries, between its batch and the rest, all it was given.
LEMMA ReleaseWellformed ==
  ASSUME NEW s \in Subs, NEW held \in Seq(Notes), NEW k \in BatchSizes
  PROVE  LET g == Release(s, held, k)
         IN  /\ Wellformed(g) /\ g.pc = "deliver" /\ g.sub = s
             /\ Range(g.batch) \cup Range(g.todo) = Range(held)
<1>. DEFINE cut == IF Len(held) < k THEN Len(held) ELSE k
            g == Release(s, held, k)
<1>1. cut \in 0..Len(held)
  BY DispatcherAssumption, LenProperties
<1>2. /\ SubSeq(held, 1, cut) \in Seq(Notes)
      /\ SubSeq(held, cut + 1, Len(held)) \in Seq(Notes)
      /\ Range(held) = Range(SubSeq(held, 1, cut)) \cup Range(SubSeq(held, cut + 1, Len(held)))
  BY <1>1, RangeCut
<1>. HIDE DEF cut
<1>3. g = [Courier(s, SubSeq(held, 1, cut)) EXCEPT
             !.todo = SubSeq(held, cut + 1, Len(held)), !.size = k]
  BY DEF Release, cut
<1>. DEFINE first == SubSeq(held, 1, cut)
            rest == SubSeq(held, cut + 1, Len(held))
            c == Courier(s, first)
<1>4. /\ g = [c EXCEPT !.todo = rest, !.size = k]
      /\ first \in Seq(Notes) /\ rest \in Seq(Notes)
      /\ Range(held) = Range(first) \cup Range(rest)
  <2>1. g = [c EXCEPT !.todo = rest, !.size = k]
    BY <1>3
  <2>. QED  BY <2>1, <1>2
<1>. HIDE DEF first, rest
<1>5. c \in Goroutine /\ c.pc = "deliver" /\ c.sub = s /\ c.batch = first
  BY <1>4, CourierWellformed DEF Wellformed
<1>. HIDE DEF g, c
<1>6. /\ g \in Goroutine /\ g.pc = "deliver" /\ g.sub = s
      /\ g.batch = first /\ g.todo = rest
  BY <1>4, <1>5 DEF Goroutine
<1>7. Wellformed(g)
  BY <1>6 DEF Wellformed
<1>. QED  BY <1>4, <1>6, <1>7 DEF g

\* Whoever hands over the head of its list keeps the tail.
LEMMA NextItemWellformed ==
  ASSUME NEW g \in Goroutine, g.todo # <<>>
  PROVE  /\ Wellformed(NextItem(g))
         /\ NextItem(g).pc \in {"idle", "flush", "park"}
         /\ NextItem(g).batch = <<>> /\ NextItem(g).todo = Tail(g.todo)
         /\ Tail(g.todo) # <<>> => NextItem(g).sub = g.sub
<1>. DEFINE rest == Tail(g.todo)  s == g.sub  fl == g.flush
<1>1. s \in Subs /\ fl \in BOOLEAN /\ g.todo \in Seq(Notes)
  BY DEF Goroutine
<1>2. rest \in Seq(Notes)
  BY <1>1, RangeHeadTail
<1>3. CASE rest # <<>>
  <2>1. NextItem(g) = Caller(s, rest, fl)
    BY <1>3 DEF NextItem
  <2>. HIDE DEF rest, s, fl
  <2>. DEFINE c == Caller(s, rest, fl)
  <2>2. Wellformed(c) /\ c.pc = "park" /\ c.batch = <<>> /\ c.todo = rest /\ c.sub = s
    BY <1>1, <1>2, <1>3, CallerWellformed
  <2>. QED  BY <2>1, <2>2 DEF rest, s
<1>4. CASE Tail(g.todo) = <<>> /\ g.flush
  <2>1. NextItem(g) = At("flush", g.sub)
    BY <1>4 DEF NextItem
  <2>. DEFINE c == At("flush", g.sub)
  <2>2. Wellformed(c) /\ c.pc = "flush" /\ c.batch = <<>> /\ c.todo = <<>>
    BY <1>1, AtWellformed
  <2>. QED  BY <1>4, <2>1, <2>2
<1>5. CASE Tail(g.todo) = <<>> /\ ~g.flush
  <2>1. NextItem(g) = Idle
    BY <1>5 DEF NextItem
  <2>. QED  BY <1>5, <2>1, IdleWellformed
<1>. QED  BY <1>1, <1>3, <1>4, <1>5

\* Whoever is done with a batch keeps what is still to be released.
LEMMA NextBatchWellformed ==
  ASSUME NEW g \in Goroutine
  PROVE  /\ Wellformed(NextBatch(g))
         /\ NextBatch(g).pc \in {"idle", "deliver"}
         /\ Range(NextBatch(g).batch) \cup Range(NextBatch(g).todo) = Range(g.todo)
<1>1. g.sub \in Subs /\ g.todo \in Seq(Notes) /\ g.size \in BatchSizes
  BY DEF Goroutine
<1>2. CASE g.todo = <<>>
  <2>1. NextBatch(g) = Idle
    BY <1>2 DEF NextBatch
  <2>. QED  BY <1>2, <2>1, IdleWellformed
<1>3. CASE g.todo # <<>>
  <2>1. NextBatch(g) = Release(g.sub, g.todo, g.size)
    BY <1>3 DEF NextBatch
  <2>. QED  BY <1>1, <2>1, ReleaseWellformed
<1>. QED  BY <1>2, <1>3

-----------------------------------------------------------------------------
(***************************************************************************)
(* Type correctness                                                        *)
(***************************************************************************)

Hands == \A p \in Procs : Wellformed(proc[p])

\* What one may assume of a goroutine that takes a step.
LEMMA Hand ==
  ASSUME TypeOK, Hands, NEW p \in Procs
  PROVE  /\ Wellformed(proc[p]) /\ proc[p] \in Goroutine
         /\ proc[p].sub \in Subs
         /\ proc[p].batch \in Seq(Notes) /\ proc[p].todo \in Seq(Notes)
         /\ proc[p].retry \in 0..MaxRetries /\ proc[p].pc \in Points
BY DEF Hands, TypeOK, Goroutine

\* One goroutine moves.
LEMMA ProcStep ==
  ASSUME TypeOK, Hands, NEW p \in Procs, NEW g, Wellformed(g),
         proc' = [proc EXCEPT ![p] = g]
  PROVE  /\ proc' \in [Procs -> Goroutine] /\ Hands'
         /\ proc'[p] = g /\ \A q \in Procs \ {p} : proc'[q] = proc[q]
BY DEF TypeOK, Hands, Wellformed

\* A goroutine that moves on in its own code keeps what it has in hand.
LEMMA Sends ==
  ASSUME NEW g \in Goroutine, NEW pc \in {"send", "retain"}
  PROVE  LET h == [g EXCEPT !.pc = pc]
         IN  /\ Wellformed(h) /\ h.sub = g.sub
             /\ h.pc = pc /\ h.batch = g.batch /\ h.todo = g.todo
<1>. DEFINE h == [g EXCEPT !.pc = pc]
<1>1. pc \in Points
  BY DispatcherAssumption DEF Points
<1>2. h \in Goroutine
  BY <1>1 DEF Goroutine
<1>3. /\ h.sub = g.sub
      /\ h.pc = pc /\ h.batch = g.batch /\ h.todo = g.todo
  BY DEF Goroutine
<1>. HIDE DEF h
<1>5. Wellformed(h)
  BY <1>2, <1>3 DEF Wellformed
<1>. QED  BY <1>3, <1>5 DEF h

\* A goroutine that goes to sleep before a retry stays well formed.
LEMMA Sleeps ==
  ASSUME NEW g \in Goroutine, NEW r \in 1..MaxRetries
  PROVE  LET h == [g EXCEPT !.pc = "wait", !.retry = r]
         IN  /\ Wellformed(h) /\ h.sub = g.sub
             /\ h.pc = "wait" /\ h.batch = g.batch /\ h.todo = g.todo
<1>. DEFINE h == [g EXCEPT !.pc = "wait", !.retry = r]
<1>1. "wait" \in Points /\ r \in 0..MaxRetries
  BY DispatcherAssumption DEF Points
<1>2. h \in Goroutine
  BY <1>1 DEF Goroutine
<1>3. /\ h.sub = g.sub
      /\ h.pc = "wait" /\ h.batch = g.batch /\ h.todo = g.todo
  BY DEF Goroutine
<1>4. h.retry = r
  BY DEF Goroutine
<1>. HIDE DEF h
<1>5. Wellformed(h)
  BY <1>2, <1>3, <1>4 DEF Wellformed
<1>. QED  BY <1>3, <1>5 DEF h

\* A goroutine that retained its batch stays well formed.
LEMMA Retains ==
  ASSUME NEW g \in Goroutine
  PROVE  LET h == [g EXCEPT !.pc = "deactivate", !.batch = <<>>]
         IN  /\ Wellformed(h) /\ h.sub = g.sub
             /\ h.pc = "deactivate" /\ h.batch = <<>> /\ h.todo = g.todo
<1>. DEFINE h == [g EXCEPT !.pc = "deactivate", !.batch = <<>>]
<1>1. "deactivate" \in Points /\ <<>> \in Seq(Notes)
  BY DispatcherAssumption DEF Points
<1>2. h \in Goroutine
  BY <1>1 DEF Goroutine
<1>3. /\ h.sub = g.sub
      /\ h.pc = "deactivate" /\ h.batch = <<>> /\ h.todo = g.todo
  BY DEF Goroutine
<1>. HIDE DEF h
<1>5. Wellformed(h)
  BY <1>2, <1>3 DEF Wellformed
<1>. QED  BY <1>3, <1>5 DEF h

\* A goroutine that is about to batch a notification stays well formed.
LEMMA Batches ==
  ASSUME NEW g \in Goroutine, NEW k \in BatchSizes, g.todo # <<>>, g.batch = <<>>
  PROVE  LET h == [g EXCEPT !.pc = "append", !.size = k]
         IN  /\ Wellformed(h) /\ h.sub = g.sub
             /\ h.pc = "append" /\ h.batch = g.batch /\ h.todo = g.todo
<1>. DEFINE h == [g EXCEPT !.pc = "append", !.size = k]
<1>1. "append" \in Points
  BY DispatcherAssumption DEF Points
<1>2. h \in Goroutine
  BY <1>1 DEF Goroutine
<1>3. /\ h.sub = g.sub
      /\ h.pc = "append" /\ h.batch = g.batch /\ h.todo = g.todo
  BY DEF Goroutine
<1>. HIDE DEF h
<1>5. Wellformed(h)
  BY <1>2, <1>3 DEF Wellformed
<1>. QED  BY <1>3, <1>5 DEF h

\* Two goroutines move: a full batch is handed to a second one.
LEMMA ProcPairStep ==
  ASSUME TypeOK, Hands, NEW p \in Procs, NEW q \in Procs \ {p},
         NEW g, Wellformed(g), NEW h, Wellformed(h),
         proc' = [proc EXCEPT ![p] = g, ![q] = h]
  PROVE  /\ proc' \in [Procs -> Goroutine] /\ Hands'
         /\ proc'[p] = g /\ proc'[q] = h
         /\ \A r \in Procs \ {p, q} : proc'[r] = proc[r]
BY DEF TypeOK, Hands, Wellformed

\* A sequence holds members of what it ranges over.
LEMMA RangeInSeq ==
  ASSUME NEW S, NEW s \in Seq(S)
  PROVE  Range(s) \subseteq S
BY LenProperties, ElementOfSeq DEF Range

\* A burst of k notifications that still fits is k new ones.
LEMMA FreshNotes ==
  ASSUME TypeOK, NEW k \in Nat \ {0}, Len(to) + k <= MaxNotes
  PROVE  /\ Fresh(k) \in Seq(Notes) /\ Fresh(k) # <<>>
         /\ Range(Fresh(k)) = (Len(to) + 1)..(Len(to) + k)
<1>1. Len(to) \in Nat
  BY LenProperties DEF TypeOK
<1>2. \A i \in 1..k : Len(to) + i \in Notes
  BY <1>1, DispatcherAssumption DEF Notes
<1>3. Fresh(k) \in [1..k -> Notes] /\ \A i \in 1..k : Fresh(k)[i] = Len(to) + i
  BY <1>2 DEF Fresh
<1>4. Fresh(k) \in Seq(Notes) /\ DOMAIN Fresh(k) = 1..k
  BY <1>3
<1>5. Fresh(k) # <<>>
  BY <1>4, EmptySeq
<1>6. \A n \in (Len(to) + 1)..(Len(to) + k) : n - Len(to) \in 1..k /\ Fresh(k)[n - Len(to)] = n
  BY <1>1, <1>3
<1>7. \A i \in 1..k : Len(to) + i \in (Len(to) + 1)..(Len(to) + k)
  BY <1>1
<1>8. Range(Fresh(k)) \subseteq (Len(to) + 1)..(Len(to) + k)
  BY <1>3, <1>4, <1>7 DEF Range
<1>9. (Len(to) + 1)..(Len(to) + k) \subseteq Range(Fresh(k))
  BY <1>4, <1>6 DEF Range
<1>. QED  BY <1>4, <1>5, <1>8, <1>9

\* The list of notifications produced grows by the burst.
LEMMA ToGrows ==
  ASSUME TypeOK, NEW k \in Nat \ {0}, NEW s \in Subs,
         to' = to \o [i \in 1..k |-> s], Len(to) + k <= MaxNotes
  PROVE  to' \in Seq(Subs) /\ Len(to') = Len(to) + k /\ Len(to') <= MaxNotes
<1>. DEFINE burst == [i \in 1..k |-> s]
<1>1. burst \in Seq(Subs) /\ Len(burst) = k
  <2>1. burst \in [1..k -> Subs]
    OBVIOUS
  <2>. QED  BY <2>1, LenProperties
<1>. HIDE DEF burst
<1>2. to \in Seq(Subs)
  BY DEF TypeOK
<1>3. to \o burst \in Seq(Subs) /\ Len(to \o burst) = Len(to) + Len(burst)
  BY <1>1, <1>2, ConcatProperties
<1>. QED  BY <1>1, <1>3 DEF burst




\* Every step keeps the types, and each goroutine's hands in order.
LEMMA TypeStep ==
  ASSUME TypeOK, Hands, [Next]_vars
  PROVE  TypeOK' /\ Hands'
<1>. USE DispatcherAssumption
<1>1. ASSUME NEW p \in Procs, EnqueuePark(p)
      PROVE  TypeOK' /\ Hands'
  <2>. DEFINE g == proc[p]
  <2>1. Wellformed(g) /\ g \in Goroutine /\ g.sub \in Subs /\ g.batch \in Seq(Notes)
    BY Hand
  <2>2. g.todo # <<>> /\ g.batch = <<>> /\ g.todo \in Seq(Notes) /\ Head(g.todo) \in Notes
    <3>1. g.todo # <<>> /\ g.batch = <<>> /\ g.todo \in Seq(Notes)
      BY <1>1, <2>1 DEF EnqueuePark, Wellformed, Goroutine
    <3>. QED  BY <3>1, RangeHeadTail
  <2>4. CASE paused[g.sub]
    <3>1. proc' = [proc EXCEPT ![p] = NextItem(g)]
      BY <1>1, <2>4 DEF EnqueuePark, Goto, Exists
    <3>2. Wellformed(NextItem(g))
      BY <2>1, <2>2, NextItemWellformed
    <3>3. proc' \in [Procs -> Goroutine] /\ Hands'
      BY <3>1, <3>2, ProcStep
    <3>4. queued' = [queued EXCEPT ![g.sub] = Append(queued[g.sub], Head(g.todo))]
      BY <1>1, <2>4 DEF EnqueuePark
    <3>5. Append(queued[g.sub], Head(g.todo)) \in Seq(Notes)
      BY <2>1, <2>2, AppendProperties DEF TypeOK
    <3>6. queued' \in [Subs -> Seq(Notes)]
      BY <3>4, <3>5 DEF TypeOK
    <3>. QED  BY <1>1, <2>1, <2>4, <3>3, <3>6 DEF EnqueuePark, TypeOK, tables, outcome
  <2>5. CASE ~(paused[g.sub])
    <3>1. proc' = [proc EXCEPT ![p] = [g EXCEPT !.pc = "append", !.size = size[g.sub]]]
      BY <1>1, <2>5 DEF EnqueuePark, Goto, Exists
    <3>2. Wellformed([g EXCEPT !.pc = "append", !.size = size[g.sub]])
      BY <2>1, <2>2, Batches DEF TypeOK
    <3>3. proc' \in [Procs -> Goroutine] /\ Hands'
      BY <3>1, <3>2, ProcStep
    <3>4. queued' \in [Subs -> Seq(Notes)]
      BY <1>1, <2>5 DEF EnqueuePark, TypeOK
    <3>. QED  BY <1>1, <2>1, <2>5, <3>3, <3>4 DEF EnqueuePark, TypeOK, tables, outcome
  <2>. QED  BY <2>4, <2>5
<1>2. ASSUME NEW p \in Procs, EnqueueWait(p)
      PROVE  TypeOK' /\ Hands'
  <2>. DEFINE g == proc[p]
  <2>1. Wellformed(g) /\ g \in Goroutine /\ g.sub \in Subs /\ g.batch \in Seq(Notes)
    BY Hand
  <2>2. g.todo # <<>> /\ g.batch = <<>> /\ g.todo \in Seq(Notes) /\ Head(g.todo) \in Notes
    <3>1. g.todo # <<>> /\ g.batch = <<>> /\ g.todo \in Seq(Notes)
      BY <1>2, <2>1 DEF EnqueueWait, Wellformed, Goroutine
    <3>. QED  BY <3>1, RangeHeadTail
  <2>3. proc' = [proc EXCEPT ![p] = NextItem(g)] /\ Wellformed(NextItem(g))
    BY <1>2, <2>1, <2>2, NextItemWellformed DEF EnqueueWait, Goto
  <2>4. proc' \in [Procs -> Goroutine] /\ Hands'
    BY <2>3, ProcStep
  <2>5. queue' \in [Subs -> Seq(Notes)] /\ timer' \in [Subs -> {"none", "armed", "fired"}]
    BY <1>2, <2>1, <2>2, AppendProperties DEF EnqueueWait, TypeOK
  <2>. QED  BY <1>2, <2>4, <2>5 DEF EnqueueWait, TypeOK, outcome
<1>3. ASSUME NEW p \in Procs, NEW q \in Procs \ {p}, EnqueueFull(p, q)
      PROVE  TypeOK' /\ Hands'
  <2>. DEFINE g == proc[p]  b == Append(queue[g.sub], Head(g.todo))
  <2>1. Wellformed(g) /\ g \in Goroutine /\ g.sub \in Subs /\ g.batch \in Seq(Notes)
    BY Hand
  <2>2. g.todo # <<>> /\ g.batch = <<>> /\ g.todo \in Seq(Notes) /\ Head(g.todo) \in Notes
    <3>1. g.todo # <<>> /\ g.batch = <<>> /\ g.todo \in Seq(Notes)
      BY <1>3, <2>1 DEF EnqueueFull, Wellformed, Goroutine
    <3>. QED  BY <3>1, RangeHeadTail
  <2>3. b \in Seq(Notes)
    BY <2>1, <2>2, AppendProperties DEF TypeOK
  <2>4. Wellformed(NextItem(g)) /\ Wellformed(Courier(g.sub, b))
    BY <2>1, <2>2, <2>3, NextItemWellformed, CourierWellformed
  <2>5. proc' = [proc EXCEPT ![p] = NextItem(g), ![q] = Courier(g.sub, b)]
    BY <1>3 DEF EnqueueFull
  <2>6. proc' \in [Procs -> Goroutine] /\ Hands'
    BY <2>4, <2>5, ProcPairStep
  <2>7. queue' \in [Subs -> Seq(Notes)] /\ timer' \in [Subs -> {"none", "armed", "fired"}]
    BY <1>3, <2>1 DEF EnqueueFull, TypeOK
  <2>. QED  BY <1>3, <2>6, <2>7 DEF EnqueueFull, TypeOK, outcome
<1>4. ASSUME NEW p \in Procs, Flush(p)
      PROVE  TypeOK' /\ Hands'
  <2>. DEFINE g == proc[p]
  <2>1. Wellformed(g) /\ g \in Goroutine /\ g.sub \in Subs /\ g.batch \in Seq(Notes)
    BY Hand
  <2>4. CASE queue[g.sub] = <<>>
    <3>1. proc' = [proc EXCEPT ![p] = Idle]
      BY <1>4, <2>4 DEF Flush, Goto, Exists
    <3>2. Wellformed(Idle)
      BY IdleWellformed
    <3>3. proc' \in [Procs -> Goroutine] /\ Hands'
      BY <3>1, <3>2, ProcStep
    <3>. QED  BY <1>4, <2>1, <2>4, <3>3 DEF Flush, TypeOK, tables, outcome
  <2>5. CASE ~(queue[g.sub] = <<>>)
    <3>1. proc' = [proc EXCEPT ![p] = [At("lookup", g.sub) EXCEPT !.batch = queue[g.sub]]]
      BY <1>4, <2>5 DEF Flush, Goto, Exists
    <3>2. Wellformed([At("lookup", g.sub) EXCEPT !.batch = queue[g.sub]])
      BY <2>1, LookupWellformed DEF TypeOK
    <3>3. proc' \in [Procs -> Goroutine] /\ Hands'
      BY <3>1, <3>2, ProcStep
    <3>. QED  BY <1>4, <2>1, <2>5, <3>3, SMTT(40) DEF Flush, TypeOK, tables, outcome
  <2>. QED  BY <2>4, <2>5
<1>5. ASSUME NEW p \in Procs, FlushLookup(p)
      PROVE  TypeOK' /\ Hands'
  <2>. DEFINE g == proc[p]
  <2>1. Wellformed(g) /\ g \in Goroutine /\ g.sub \in Subs /\ g.batch \in Seq(Notes)
    BY Hand
  <2>2. Range(g.batch) \subseteq Notes
    BY <2>1, RangeInSeq
  <2>4. CASE Exists(g.sub)
    <3>1. proc' = [proc EXCEPT ![p] = Courier(g.sub, g.batch)]
      BY <1>5, <2>4 DEF FlushLookup, Goto, Exists
    <3>2. Wellformed(Courier(g.sub, g.batch))
      BY <2>1, CourierWellformed
    <3>3. proc' \in [Procs -> Goroutine] /\ Hands'
      BY <3>1, <3>2, ProcStep
    <3>. QED  BY <1>5, <2>1, <2>4, <3>3, <2>2 DEF FlushLookup, TypeOK, tables, outcome
  <2>5. CASE ~(Exists(g.sub))
    <3>1. proc' = [proc EXCEPT ![p] = Idle]
      BY <1>5, <2>5 DEF FlushLookup, Goto, Exists
    <3>2. Wellformed(Idle)
      BY IdleWellformed
    <3>3. proc' \in [Procs -> Goroutine] /\ Hands'
      BY <3>1, <3>2, ProcStep
    <3>. QED  BY <1>5, <2>1, <2>5, <3>3, <2>2 DEF FlushLookup, TypeOK, tables, outcome
  <2>. QED  BY <2>4, <2>5
<1>6. ASSUME NEW p \in Procs, DeliverPark(p)
      PROVE  TypeOK' /\ Hands'
  <2>. DEFINE g == proc[p]
  <2>1. Wellformed(g) /\ g \in Goroutine /\ g.sub \in Subs /\ g.batch \in Seq(Notes)
    BY Hand
  <2>4. CASE paused[g.sub]
    <3>1. proc' = [proc EXCEPT ![p] = NextBatch(g)]
      BY <1>6, <2>4 DEF DeliverPark, Goto, Exists
    <3>2. Wellformed(NextBatch(g))
      BY <2>1, NextBatchWellformed
    <3>3. proc' \in [Procs -> Goroutine] /\ Hands'
      BY <3>1, <3>2, ProcStep
    <3>4. queued' = [queued EXCEPT ![g.sub] = queued[g.sub] \o g.batch]
      BY <1>6, <2>4 DEF DeliverPark
    <3>5. queued[g.sub] \o g.batch \in Seq(Notes)
      BY <2>1, ConcatProperties DEF TypeOK
    <3>6. queued' \in [Subs -> Seq(Notes)]
      BY <3>4, <3>5 DEF TypeOK
    <3>. QED  BY <1>6, <2>1, <2>4, <3>3, <3>6 DEF DeliverPark, TypeOK, tables, outcome
  <2>5. CASE ~(paused[g.sub])
    <3>1. proc' = [proc EXCEPT ![p] = [g EXCEPT !.pc = "send"]]
      BY <1>6, <2>5 DEF DeliverPark, Goto, Exists
    <3>2. Wellformed([g EXCEPT !.pc = "send"])
      BY <2>1, Sends
    <3>3. proc' \in [Procs -> Goroutine] /\ Hands'
      BY <3>1, <3>2, ProcStep
    <3>4. queued' \in [Subs -> Seq(Notes)]
      BY <1>6, <2>5 DEF DeliverPark, TypeOK
    <3>. QED  BY <1>6, <2>1, <2>5, <3>3, <3>4 DEF DeliverPark, TypeOK, tables, outcome
  <2>. QED  BY <2>4, <2>5
<1>7. ASSUME NEW p \in Procs, SendOk(p)
      PROVE  TypeOK' /\ Hands'
  <2>. DEFINE g == proc[p]
  <2>1. Wellformed(g) /\ g \in Goroutine /\ g.sub \in Subs /\ g.batch \in Seq(Notes)
    BY Hand
  <2>2. Range(g.batch) \subseteq Notes
    BY <2>1, RangeInSeq
  <2>3. proc' = [proc EXCEPT ![p] = NextBatch(g)]
    BY <1>7 DEF SendOk, Goto, Start, Produce
  <2>4. Wellformed(NextBatch(g))
    BY <2>1, NextBatchWellformed
  <2>5. proc' \in [Procs -> Goroutine] /\ Hands'
    BY <2>3, <2>4, ProcStep
  <2>. QED  BY <1>7, <2>5, <2>2 DEF SendOk, TypeOK, tables, outcome
<1>8. ASSUME NEW p \in Procs, SendFails(p)
      PROVE  TypeOK' /\ Hands'
  <2>. DEFINE g == proc[p]
  <2>1. Wellformed(g) /\ g \in Goroutine /\ g.sub \in Subs /\ g.batch \in Seq(Notes)
    BY Hand
  <2>2. g.retry \in 0..MaxRetries
    BY Hand
  <2>3. g.retry < MaxRetries => g.retry + 1 \in 1..MaxRetries
    BY <2>2
  <2>4. CASE g.retry < MaxRetries
    <3>1. proc' = [proc EXCEPT ![p] = [g EXCEPT !.pc = "wait", !.retry = g.retry + 1]]
      BY <1>8, <2>4 DEF SendFails, Goto, Exists
    <3>2. Wellformed([g EXCEPT !.pc = "wait", !.retry = g.retry + 1])
      BY <2>1, <2>3, <2>4, Sleeps
    <3>3. proc' \in [Procs -> Goroutine] /\ Hands'
      BY <3>1, <3>2, ProcStep
    <3>. QED  BY <1>8, <2>1, <2>4, <3>3 DEF SendFails, TypeOK, tables, outcome
  <2>5. CASE ~(g.retry < MaxRetries)
    <3>1. proc' = [proc EXCEPT ![p] = [g EXCEPT !.pc = "retain"]]
      BY <1>8, <2>5 DEF SendFails, Goto, Exists
    <3>2. Wellformed([g EXCEPT !.pc = "retain"])
      BY <2>1, Sends
    <3>3. proc' \in [Procs -> Goroutine] /\ Hands'
      BY <3>1, <3>2, ProcStep
    <3>. QED  BY <1>8, <2>1, <2>5, <3>3 DEF SendFails, TypeOK, tables, outcome
  <2>. QED  BY <2>4, <2>5
<1>9. ASSUME NEW p \in Procs, WakeUp(p)
      PROVE  TypeOK' /\ Hands'
  <2>. DEFINE g == proc[p]
  <2>1. Wellformed(g) /\ g \in Goroutine /\ g.sub \in Subs /\ g.batch \in Seq(Notes)
    BY Hand
  <2>2. Range(g.batch) \subseteq Notes
    BY <2>1, RangeInSeq
  <2>3. Email[g.retry] \in {"none", "warning", "deactivation"}
    BY <1>9, <2>1 DEF WakeUp, Wellformed
  <2>4. CASE Exists(g.sub)
    <3>1. proc' = [proc EXCEPT ![p] = [g EXCEPT !.pc = "send"]]
      BY <1>9, <2>4 DEF WakeUp, Goto, Exists
    <3>2. Wellformed([g EXCEPT !.pc = "send"])
      BY <2>1, Sends
    <3>3. proc' \in [Procs -> Goroutine] /\ Hands'
      BY <3>1, <3>2, ProcStep
    <3>4. mail' = [mail EXCEPT ![g.sub] = mail[g.sub] \cup ({Email[g.retry]} \ {"none"})]
      BY <1>9, <2>4 DEF WakeUp, Exists
    <3>5. mail[g.sub] \cup ({Email[g.retry]} \ {"none"}) \in SUBSET {"warning", "deactivation"}
      BY <2>1, <2>3 DEF TypeOK
    <3>6. mail' \in [Subs -> SUBSET {"warning", "deactivation"}]
      BY <3>4, <3>5 DEF TypeOK
    <3>. QED  BY <1>9, <2>1, <2>4, <3>3, <3>6, <2>2 DEF WakeUp, TypeOK, tables, outcome
  <2>5. CASE ~(Exists(g.sub))
    <3>1. proc' = [proc EXCEPT ![p] = NextBatch(g)]
      BY <1>9, <2>5 DEF WakeUp, Goto, Exists
    <3>2. Wellformed(NextBatch(g))
      BY <2>1, NextBatchWellformed
    <3>3. proc' \in [Procs -> Goroutine] /\ Hands'
      BY <3>1, <3>2, ProcStep
    <3>4. mail' \in [Subs -> SUBSET {"warning", "deactivation"}]
      BY <1>9, <2>5 DEF WakeUp, TypeOK, Exists
    <3>. QED  BY <1>9, <2>1, <2>5, <3>3, <3>4, <2>2 DEF WakeUp, TypeOK, tables, outcome
  <2>. QED  BY <2>4, <2>5
<1>10. ASSUME NEW p \in Procs, Retain(p)
      PROVE  TypeOK' /\ Hands'
  <2>. DEFINE g == proc[p]
  <2>1. Wellformed(g) /\ g \in Goroutine /\ g.sub \in Subs /\ g.batch \in Seq(Notes)
    BY Hand
  <2>3. proc' = [proc EXCEPT ![p] = [g EXCEPT !.pc = "deactivate", !.batch = <<>>]]
    BY <1>10 DEF Retain, Goto, Start, Produce
  <2>4. Wellformed([g EXCEPT !.pc = "deactivate", !.batch = <<>>])
    BY <2>1, Retains
  <2>5. proc' \in [Procs -> Goroutine] /\ Hands'
    BY <2>3, <2>4, ProcStep
  <2>. QED  BY <1>10, <2>5, <2>1, ConcatProperties DEF Retain, TypeOK, tables, outcome
<1>11. ASSUME NEW p \in Procs, Deactivate(p)
      PROVE  TypeOK' /\ Hands'
  <2>. DEFINE g == proc[p]
  <2>1. Wellformed(g) /\ g \in Goroutine /\ g.sub \in Subs /\ g.batch \in Seq(Notes)
    BY Hand
  <2>3. proc' = [proc EXCEPT ![p] = NextBatch(g)]
    BY <1>11 DEF Deactivate, Goto, Start, Produce
  <2>4. Wellformed(NextBatch(g))
    BY <2>1, NextBatchWellformed
  <2>5. proc' \in [Procs -> Goroutine] /\ Hands'
    BY <2>3, <2>4, ProcStep
  <2>. QED  BY <1>11, <2>5, <2>1 DEF Deactivate, TypeOK, tables, outcome
<1>12. ASSUME NEW p \in Procs, Redeliver(p)
      PROVE  TypeOK' /\ Hands'
  <2>. DEFINE g == proc[p]
  <2>1. Wellformed(g) /\ g \in Goroutine /\ g.sub \in Subs /\ g.batch \in Seq(Notes)
    BY Hand
  <2>4. CASE pending[g.sub] = <<>>
    <3>1. proc' = [proc EXCEPT ![p] = Idle]
      BY <1>12, <2>4 DEF Redeliver, Goto, Exists
    <3>2. Wellformed(Idle)
      BY IdleWellformed
    <3>3. proc' \in [Procs -> Goroutine] /\ Hands'
      BY <3>1, <3>2, ProcStep
    <3>. QED  BY <1>12, <2>1, <2>4, <3>3 DEF Redeliver, TypeOK, tables, outcome
  <2>5. CASE ~(pending[g.sub] = <<>>)
    <3>1. proc' = [proc EXCEPT ![p] = Caller(g.sub, pending[g.sub], FALSE)]
      BY <1>12, <2>5 DEF Redeliver, Goto, Exists
    <3>2. Wellformed(Caller(g.sub, pending[g.sub], FALSE))
      BY <2>1, <2>5, CallerWellformed DEF TypeOK
    <3>3. proc' \in [Procs -> Goroutine] /\ Hands'
      BY <3>1, <3>2, ProcStep
    <3>. QED  BY <1>12, <2>1, <2>5, <3>3 DEF Redeliver, TypeOK, tables, outcome
  <2>. QED  BY <2>4, <2>5
<1>13. ASSUME NEW p \in Procs, NEW s \in Subs, TimerFires(p, s)
      PROVE  TypeOK' /\ Hands'
  <2>3. proc' = [proc EXCEPT ![p] = At("flush", s)]
    BY <1>13 DEF TimerFires, Goto, Start, Produce
  <2>4. Wellformed(At("flush", s))
    BY AtWellformed
  <2>5. proc' \in [Procs -> Goroutine] /\ Hands'
    BY <2>3, <2>4, ProcStep
  <2>. QED  BY <1>13, <2>5 DEF TimerFires, TypeOK, tables, outcome
<1>14. ASSUME NEW p \in Procs, NEW s \in Subs, NEW k \in Nat \ {0}, NEW fl \in BOOLEAN, Produce(p, s, k, fl)
      PROVE  TypeOK' /\ Hands'
  <2>1. Fresh(k) \in Seq(Notes) /\ Fresh(k) # <<>>
    BY <1>14, FreshNotes DEF Produce
  <2>2. proc' = [proc EXCEPT ![p] = Caller(s, Fresh(k), fl)]
    BY <1>14 DEF Produce, Start
  <2>3. proc' \in [Procs -> Goroutine] /\ Hands'
    BY <2>1, <2>2, CallerWellformed, ProcStep
  <2>4. to' \in Seq(Subs) /\ Len(to') <= MaxNotes
    BY <1>14, ToGrows DEF Produce
  <2>. QED  BY <1>14, <2>3, <2>4 DEF Produce, TypeOK, tables, outcome
<1>15. ASSUME NEW p \in Procs, NEW s \in Subs, Activate(p, s)
      PROVE  TypeOK' /\ Hands'
  <2>3. proc' = [proc EXCEPT ![p] = At("redeliver", s)]
    BY <1>15 DEF Activate, Goto, Start, Produce
  <2>4. Wellformed(At("redeliver", s))
    BY AtWellformed
  <2>5. proc' \in [Procs -> Goroutine] /\ Hands'
    BY <2>3, <2>4, ProcStep
  <2>. QED  BY <1>15, <2>5 DEF Activate, TypeOK, tables, outcome
<1>16. ASSUME NEW s \in Subs, ClientDeactivates(s)
      PROVE  TypeOK' /\ Hands'
  BY <1>16 DEF ClientDeactivates, TypeOK, Hands, tables, outcome
<1>17. ASSUME NEW s \in Subs, Delete(s)
      PROVE  TypeOK' /\ Hands'
  BY <1>17 DEF Delete, TypeOK, Hands, tables, outcome
<1>18. ASSUME NEW s \in Subs, NEW k \in BatchSizes, UpdateSize(s, k)
      PROVE  TypeOK' /\ Hands'
  BY <1>18 DEF UpdateSize, TypeOK, Hands, tables, outcome
<1>19. ASSUME NEW s \in Subs, Pause(s)
      PROVE  TypeOK' /\ Hands'
  BY <1>19 DEF Pause, TypeOK, Hands, tables, outcome
<1>20. ASSUME NEW p \in Procs, NEW s \in Subs, Resume(p, s)
      PROVE  TypeOK' /\ Hands'
  <2>1. CASE queued[s] = <<>>
    <3>1. proc' = [proc EXCEPT ![p] = Idle]
      BY <1>20, <2>1 DEF Resume, Start
    <3>2. proc' \in [Procs -> Goroutine] /\ Hands'
      BY <3>1, IdleWellformed, ProcStep
    <3>. QED  BY <1>20, <3>2 DEF Resume, TypeOK, outcome
  <2>2. CASE queued[s] # <<>>
    <3>1. proc' = [proc EXCEPT ![p] = Release(s, queued[s], size[s])]
      BY <1>20, <2>2 DEF Resume, Start
    <3>2. Wellformed(Release(s, queued[s], size[s]))
      BY ReleaseWellformed DEF TypeOK
    <3>3. proc' \in [Procs -> Goroutine] /\ Hands'
      BY <3>1, <3>2, ProcStep
    <3>. QED  BY <1>20, <3>3 DEF Resume, TypeOK, outcome
  <2>. QED  BY <2>1, <2>2
<1>21. CASE UNCHANGED vars
  BY <1>21 DEF vars, TypeOK, Hands
<1>22. ASSUME NEW p \in Procs, NEW s \in Subs, Environment(p, s) PROVE TypeOK' /\ Hands'
  <2>1. Notify(p, s) => Produce(p, s, 1, FALSE)
    BY DEF Notify
  <2>2. ClientTest(p, s) => Produce(p, s, 1, TRUE)
    BY DEF ClientTest
  <2>3. \A k \in 1..MaxBurst, fl \in BOOLEAN :
          SimNotifications(p, s, k, fl) => k \in Nat \ {0} /\ Produce(p, s, k, fl)
    BY DEF SimNotifications
  <2>4. \A j \in Nat \ {0}, fl \in BOOLEAN : Produce(p, s, j, fl) => TypeOK' /\ Hands'
    BY <1>14
  <2>5. CASE Notify(p, s) \/ ClientTest(p, s)
    <3>1. 1 \in Nat \ {0} /\ TRUE \in BOOLEAN /\ FALSE \in BOOLEAN
      OBVIOUS
    <3>2. Produce(p, s, 1, FALSE) => TypeOK' /\ Hands'
      BY <3>1, <1>14
    <3>3. Produce(p, s, 1, TRUE) => TypeOK' /\ Hands'
      BY <3>1, <1>14
    <3>. QED  BY <2>1, <2>2, <2>5, <3>2, <3>3
  <2>6. CASE \E k \in 1..MaxBurst, fl \in BOOLEAN : SimNotifications(p, s, k, fl)
    BY <2>3, <2>4, <2>6
  <2>. QED  BY <1>22, <2>5, <2>6, <1>15, <1>16, <1>17, <1>18, <1>19, <1>20 DEF Environment
<1>. QED  BY <1>1, <1>2, <1>3, <1>4, <1>5, <1>6, <1>7, <1>8, <1>9, <1>10, <1>11, <1>12, <1>13, <1>21, <1>22 DEF Next, Run

\* The program starts with its types in order.
LEMMA TypeInit ==
  ASSUME Init PROVE TypeOK /\ Hands
<1>1. \A p \in Procs : proc[p] = Idle
  BY DEF Init
<1>2. Idle \in Goroutine /\ Wellformed(Idle)
  BY IdleWellformed DEF Wellformed
<1>3. TypeOK
  BY <1>2, DispatcherAssumption, EmptySeq DEF Init, TypeOK
<1>. QED  BY <1>1, <1>2, <1>3 DEF Hands

Typed == TypeOK /\ Hands

\* Types, and what goroutines hold at each point, are invariant.
LEMMA TypedInvariant == Spec => []Typed
<1>1. Init => Typed
  BY TypeInit DEF Typed
<1>2. Typed /\ [Next]_vars => Typed'
  BY TypeStep DEF Typed
<1>. QED  BY <1>1, <1>2, PTL DEF Spec

\* Every table and every goroutine keeps its type, however many goroutines
\* are inside the dispatcher and whatever the schedule of retries.
THEOREM TypeCorrect == Spec => []TypeOK
<1>1. Typed => TypeOK
  BY DEF Typed
<1>. QED  BY <1>1, TypedInvariant, PTL

-----------------------------------------------------------------------------
(***************************************************************************)
(* Who touches what                                                        *)
(***************************************************************************)

\* A goroutine that is running is moved by itself alone.
LEMMA OwnStep ==
  ASSUME TypeOK, [Next]_vars, NEW r \in Procs,
         proc[r].pc # "idle", proc'[r] # proc[r]
  PROVE  Run(r)
<1>. USE DEF TypeOK
<1>1. Next
  BY DEF vars
<1>2. ASSUME NEW p \in Procs, Run(p), p # r PROVE FALSE
  <2>1. ASSUME NEW q \in Procs \ {p}, EnqueueFull(p, q) PROVE FALSE
    BY <1>2, <2>1 DEF EnqueueFull
  <2>2. ASSUME NEW g, proc' = [proc EXCEPT ![p] = g] PROVE FALSE
    BY <1>2, <2>2
  <2>3. ASSUME EnqueuePark(p) PROVE FALSE
    BY <2>2, <2>3 DEF EnqueuePark, Goto
  <2>4. ASSUME EnqueueWait(p) \/ Flush(p) \/ SendOk(p) \/ SendFails(p) PROVE FALSE
    BY <2>2, <2>4 DEF EnqueueWait, Flush, SendOk, SendFails, Goto
  <2>5. ASSUME FlushLookup(p) \/ DeliverPark(p) \/ WakeUp(p) PROVE FALSE
    BY <2>2, <2>5 DEF FlushLookup, DeliverPark, WakeUp, Goto
  <2>6. ASSUME Retain(p) \/ Deactivate(p) \/ Redeliver(p) PROVE FALSE
    BY <2>2, <2>6 DEF Retain, Deactivate, Redeliver, Goto
  <2>. QED  BY <1>2, <2>1, <2>3, <2>4, <2>5, <2>6 DEF Run
<1>3. ASSUME NEW p \in Procs, NEW g, Start(p, g) PROVE FALSE
  BY <1>3 DEF Start
<1>4. ASSUME NEW p \in Procs, NEW s \in Subs, TimerFires(p, s) PROVE FALSE
  BY <1>3, <1>4 DEF TimerFires
<1>5. ASSUME NEW p \in Procs, NEW s \in Subs, Environment(p, s) PROVE FALSE
  <2>1. ASSUME NEW k, NEW fl, Produce(p, s, k, fl) PROVE FALSE
    BY <1>3, <2>1 DEF Produce
  <2>2. ASSUME Activate(p, s) \/ Resume(p, s) PROVE FALSE
    BY <1>3, <2>2 DEF Activate, Resume
  <2>3. ASSUME UNCHANGED proc PROVE FALSE
    BY <2>3
  <2>. QED  BY <1>5, <2>1, <2>2, <2>3
         DEF Environment, Notify, ClientTest, SimNotifications,
             ClientDeactivates, Delete, UpdateSize, Pause
<1>. QED  BY <1>1, <1>2, <1>4, <1>5 DEF Next

\* What each kind of step leaves alone.
Quiet == UNCHANGED <<queue, timer, pending, queued, paused, status, to>>

\* Which tables each step of a goroutine can touch.
LEMMA Touches ==
  ASSUME [Next]_vars
  PROVE  \/ Quiet
         \/ \E p \in Procs : \/ EnqueuePark(p) \/ EnqueueWait(p) \/ Flush(p)
                             \/ DeliverPark(p) \/ Retain(p) \/ Deactivate(p)
                             \/ Redeliver(p)
         \/ \E p \in Procs : \E q \in Procs \ {p} : EnqueueFull(p, q)
         \/ \E p \in Procs, s \in Subs :
              \/ TimerFires(p, s) \/ Activate(p, s) \/ ClientDeactivates(s)
              \/ Delete(s) \/ Pause(s) \/ Resume(p, s)
         \/ \E p \in Procs, s \in Subs, k \in Nat \ {0}, fl \in BOOLEAN : Produce(p, s, k, fl)
<1>1. CASE UNCHANGED vars
  BY <1>1 DEF vars, Quiet
<1>2. ASSUME NEW p \in Procs, Run(p)
      PROVE  \/ Quiet
             \/ EnqueuePark(p) \/ EnqueueWait(p) \/ Flush(p) \/ DeliverPark(p)
             \/ Retain(p) \/ Deactivate(p) \/ Redeliver(p)
             \/ \E q \in Procs \ {p} : EnqueueFull(p, q)
  <2>1. FlushLookup(p) \/ SendOk(p) \/ SendFails(p) \/ WakeUp(p) => Quiet
    BY DEF FlushLookup, SendOk, SendFails, WakeUp, Quiet, tables
  <2>. QED  BY <1>2, <2>1 DEF Run
<1>3. ASSUME NEW p \in Procs, NEW s \in Subs, Environment(p, s)
      PROVE  \/ Quiet
             \/ Activate(p, s) \/ ClientDeactivates(s) \/ Delete(s) \/ Pause(s) \/ Resume(p, s)
             \/ \E k \in Nat \ {0}, fl \in BOOLEAN : Produce(p, s, k, fl)
  <2>1. \A k \in BatchSizes : UpdateSize(s, k) => Quiet
    BY DEF UpdateSize, Quiet, tables
  <2>2. Notify(p, s) => Produce(p, s, 1, FALSE)
    BY DEF Notify
  <2>3. ClientTest(p, s) => Produce(p, s, 1, TRUE)
    BY DEF ClientTest
  <2>4. \A k \in 1..MaxBurst, fl \in BOOLEAN :
          SimNotifications(p, s, k, fl) => k \in Nat \ {0} /\ Produce(p, s, k, fl)
    BY DispatcherAssumption DEF SimNotifications
  <2>5. 1 \in Nat \ {0} /\ TRUE \in BOOLEAN /\ FALSE \in BOOLEAN
    OBVIOUS
  <2>. QED  BY <1>3, <2>1, <2>2, <2>3, <2>4, <2>5, Zenon DEF Environment
<1>. QED  BY <1>1, <1>2, <1>3, Zenon DEF Next

-----------------------------------------------------------------------------
(***************************************************************************)
(* The pause, the retained batches and the flush timer                     *)
(***************************************************************************)

\* Every step keeps ParkedMeansPaused.
LEMMA ParkedStep ==
  ASSUME TypeOK, ParkedMeansPaused, [Next]_vars
  PROVE  ParkedMeansPaused'
<1>. USE DEF ParkedMeansPaused, TypeOK
<1>1. UNCHANGED <<queued, paused>> => ParkedMeansPaused'
  OBVIOUS
<1>2. ASSUME NEW p \in Procs, EnqueuePark(p) \/ DeliverPark(p) PROVE ParkedMeansPaused'
  BY <1>2 DEF EnqueuePark, DeliverPark
<1>3. ASSUME NEW p \in Procs, NEW s \in Subs, Pause(s) \/ Resume(p, s) PROVE ParkedMeansPaused'
  BY <1>3 DEF Pause, Resume
<1>4. ASSUME NEW p \in Procs,
             EnqueueWait(p) \/ Flush(p) \/ Retain(p) \/ Deactivate(p) \/ Redeliver(p)
      PROVE  UNCHANGED <<queued, paused>>
  BY <1>4 DEF EnqueueWait, Flush, Retain, Deactivate, Redeliver, tables
<1>5. ASSUME NEW p \in Procs, NEW q \in Procs \ {p}, EnqueueFull(p, q)
      PROVE  UNCHANGED <<queued, paused>>
  BY <1>5 DEF EnqueueFull
<1>6. ASSUME NEW p \in Procs, NEW s \in Subs,
             TimerFires(p, s) \/ Activate(p, s) \/ ClientDeactivates(s) \/ Delete(s)
      PROVE  UNCHANGED <<queued, paused>>
  BY <1>6 DEF TimerFires, Activate, ClientDeactivates, Delete, tables
<1>7. ASSUME NEW p, NEW s, NEW k, NEW fl, Produce(p, s, k, fl)
      PROVE  UNCHANGED <<queued, paused>>
  BY <1>7 DEF Produce, tables
<1>8. Quiet => UNCHANGED <<queued, paused>>
  BY DEF Quiet
<1>. QED  BY <1>1, <1>2, <1>3, <1>4, <1>5, <1>6, <1>7, <1>8, Touches

\* Pressing release leaves nothing behind, whatever arrives meanwhile.
THEOREM PausedQueueSafe == Spec => []ParkedMeansPaused
<1>1. Init => ParkedMeansPaused
  BY DEF Init, ParkedMeansPaused
<1>2. Typed /\ ParkedMeansPaused /\ [Next]_vars => ParkedMeansPaused'
  BY ParkedStep DEF Typed
<1>. QED  BY <1>1, <1>2, TypedInvariant, PTL DEF Spec

\* Steps that change what is retained, or make a subscription active.
LEMMA RetainedTouches ==
  ASSUME TypeOK, [Next]_vars
  PROVE  /\ \/ UNCHANGED pending
            \/ \E p \in Procs : Retain(p) \/ Redeliver(p)
         /\ \A s \in Subs : status'[s] = "active" =>
              status[s] = "active" \/ \E p \in Procs : Activate(p, s)
<1>. USE DEF TypeOK
<1>1. Quiet => UNCHANGED <<pending, status>>
  BY DEF Quiet
<1>2. ASSUME NEW p \in Procs, EnqueuePark(p) \/ EnqueueWait(p) \/ Flush(p) \/ DeliverPark(p)
      PROVE  UNCHANGED <<pending, status>>
  BY <1>2 DEF EnqueuePark, EnqueueWait, Flush, DeliverPark
<1>3. ASSUME NEW p \in Procs, NEW q \in Procs \ {p}, EnqueueFull(p, q)
      PROVE  UNCHANGED <<pending, status>>
  BY <1>3 DEF EnqueueFull
<1>4. ASSUME NEW p \in Procs, Retain(p) \/ Redeliver(p) PROVE UNCHANGED status
  BY <1>4 DEF Retain, Redeliver
<1>5. ASSUME NEW p \in Procs, Deactivate(p)
      PROVE  UNCHANGED pending /\ \A s \in Subs : status'[s] = "active" => status[s] = "active"
  BY <1>5 DEF Deactivate, tables
<1>6. ASSUME NEW p \in Procs, NEW s \in Subs, TimerFires(p, s) \/ Pause(s) \/ Resume(p, s)
      PROVE  UNCHANGED <<pending, status>>
  BY <1>6 DEF TimerFires, Pause, Resume
<1>7. ASSUME NEW s \in Subs, ClientDeactivates(s) \/ Delete(s)
      PROVE  UNCHANGED pending /\ \A t \in Subs : status'[t] = "active" => status[t] = "active"
  BY <1>7 DEF ClientDeactivates, Delete, tables
<1>8. ASSUME NEW p \in Procs, NEW s \in Subs, Activate(p, s)
      PROVE  /\ UNCHANGED pending
             /\ \A t \in Subs : status'[t] = "active" => status[t] = "active" \/ t = s
  BY <1>8 DEF Activate, tables
<1>9. ASSUME NEW p, NEW s, NEW k, NEW fl, Produce(p, s, k, fl)
      PROVE  UNCHANGED <<pending, status>>
  BY <1>9 DEF Produce, tables
<1>. QED  BY <1>1, <1>2, <1>3, <1>4, <1>5, <1>6, <1>7, <1>8, <1>9, Touches

\* Every step keeps RetainedMeansDown.
LEMMA RetainedStep ==
  ASSUME TypeOK, Hands, RetainedMeansDown, [Next]_vars
  PROVE  RetainedMeansDown'
<1>. USE DEF TypeOK
<1>. SUFFICES ASSUME NEW s \in Subs, pending'[s] # <<>>, status'[s] = "active"
              PROVE  \E p \in Procs : proc'[p].sub = s /\ proc'[p].pc \in {"deactivate", "redeliver"}
  BY DEF RetainedMeansDown
<1>1. CASE pending[s] # <<>> /\ status[s] = "active"
  <2>1. PICK p \in Procs : proc[p].sub = s /\ proc[p].pc \in {"deactivate", "redeliver"}
    BY <1>1 DEF RetainedMeansDown
  <2>2. CASE proc'[p] = proc[p]
    BY <2>1, <2>2
  <2>3. CASE Run(p)
    <3>1. Deactivate(p) \/ Redeliver(p)
      BY <2>1, <2>3 DEF Run, EnqueuePark, EnqueueWait, EnqueueFull, Flush, FlushLookup,
                         DeliverPark, SendOk, SendFails, WakeUp, Retain
    <3>2. ~Deactivate(p)
      BY <2>1, <1>1 DEF Deactivate, Exists
    <3>3. ~Redeliver(p)
      BY <2>1 DEF Redeliver
    <3>. QED  BY <3>1, <3>2, <3>3
  <2>. QED  BY <2>1, <2>2, <2>3, OwnStep
<1>2. CASE pending[s] = <<>>
  <2>1. PICK p \in Procs : Retain(p) \/ Redeliver(p)
    BY <1>2, RetainedTouches
  <2>2. ~Redeliver(p)
    BY <1>2 DEF Redeliver
  <2>3. Retain(p) /\ proc[p].sub = s
    BY <1>2, <2>1, <2>2, Hand DEF Retain
  <2>4. proc'[p] = [proc[p] EXCEPT !.pc = "deactivate", !.batch = <<>>]
    BY <2>3 DEF Retain, Goto
  <2>. QED  BY <2>3, <2>4, Hand, Retains, ZenonT(60)
<1>3. CASE status[s] # "active"
  <2>1. PICK p \in Procs : Activate(p, s)
    BY <1>3, RetainedTouches
  <2>2. proc'[p] = At("redeliver", s)
    BY <2>1 DEF Activate, Start
  <2>5. At("redeliver", s).pc = "redeliver" /\ At("redeliver", s).sub = s
    BY AtWellformed
  <2>. QED  BY <2>2, <2>5
<1>. QED  BY <1>1, <1>2, <1>3

\* A notification that exhausted its schedule is never stranded beside an
\* active subscription: somebody is about to deactivate it or to redeliver.
THEOREM RetainedSafe == Spec => []RetainedMeansDown
<1>1. Init => RetainedMeansDown
  BY DEF Init, RetainedMeansDown
<1>2. Typed /\ RetainedMeansDown /\ [Next]_vars => RetainedMeansDown'
  BY RetainedStep DEF Typed
<1>. QED  BY <1>1, <1>2, TypedInvariant, PTL DEF Spec

\* The flush timer, strengthened: a batch has a timer, and a timer that has
\* fired has a goroutine that has not flushed yet.
FlushComing ==
  \A s \in Subs :
    /\ queue[s] # <<>> => timer[s] # "none"
    /\ timer[s] = "fired" => \E p \in Procs : proc[p].pc = "flush" /\ proc[p].sub = s

\* Which steps touch the flush timer or the short batch.
LEMMA TimerTouches ==
  ASSUME TypeOK, [Next]_vars
  PROVE  \/ UNCHANGED <<queue, timer>>
         \/ \E p \in Procs : EnqueueWait(p) \/ Flush(p)
         \/ \E p \in Procs : \E q \in Procs \ {p} : EnqueueFull(p, q)
         \/ \E p \in Procs, s \in Subs : TimerFires(p, s)
<1>1. Quiet => UNCHANGED <<queue, timer>>
  BY DEF Quiet
<1>2. ASSUME NEW p \in Procs,
             EnqueuePark(p) \/ DeliverPark(p) \/ Retain(p) \/ Deactivate(p) \/ Redeliver(p)
      PROVE  UNCHANGED <<queue, timer>>
  BY <1>2 DEF EnqueuePark, DeliverPark, Retain, Deactivate, Redeliver, tables
<1>3. ASSUME NEW p \in Procs, NEW s \in Subs,
             Activate(p, s) \/ ClientDeactivates(s) \/ Delete(s) \/ Pause(s) \/ Resume(p, s)
      PROVE  UNCHANGED <<queue, timer>>
  BY <1>3 DEF Activate, ClientDeactivates, Delete, Pause, Resume, tables
<1>4. ASSUME NEW p, NEW s, NEW k, NEW fl, Produce(p, s, k, fl)
      PROVE  UNCHANGED <<queue, timer>>
  BY <1>4 DEF Produce, tables
<1>. QED  BY <1>1, <1>2, <1>3, <1>4, Touches

\* Every step keeps a flush coming for a short batch.
LEMMA FlushStep ==
  ASSUME TypeOK, Hands, FlushComing, [Next]_vars
  PROVE  FlushComing'
<1>. USE DEF TypeOK
<1>1. ASSUME NEW s \in Subs, queue'[s] # <<>> PROVE timer'[s] # "none"
  <2>1. ASSUME NEW p \in Procs, EnqueueWait(p) \/ Flush(p) PROVE timer'[s] # "none"
    BY <1>1, <2>1, Hand DEF EnqueueWait, Flush, FlushComing
  <2>2. ASSUME NEW p \in Procs, NEW q \in Procs \ {p}, EnqueueFull(p, q) PROVE timer'[s] # "none"
    BY <1>1, <2>2, Hand DEF EnqueueFull, FlushComing
  <2>3. ASSUME NEW p \in Procs, NEW t \in Subs, TimerFires(p, t) PROVE timer'[s] # "none"
    BY <1>1, <2>3 DEF TimerFires, FlushComing
  <2>. QED  BY <1>1, <2>1, <2>2, <2>3, TimerTouches DEF FlushComing
<1>2. ASSUME NEW s \in Subs, timer'[s] = "fired"
      PROVE  \E p \in Procs : proc'[p].pc = "flush" /\ proc'[p].sub = s
  <2>1. CASE timer[s] = "fired"
    <3>1. PICK p \in Procs : proc[p].pc = "flush" /\ proc[p].sub = s
      BY <2>1 DEF FlushComing
    <3>2. CASE Run(p)
      <4>1. Flush(p)
        BY <3>1, <3>2 DEF Run, EnqueuePark, EnqueueWait, EnqueueFull, FlushLookup, DeliverPark,
                           SendOk, SendFails, WakeUp, Retain, Deactivate, Redeliver
      <4>. QED  BY <1>2, <3>1, <4>1 DEF Flush
    <3>. QED  BY <3>1, <3>2, OwnStep
  <2>2. CASE timer[s] # "fired"
    <3>1. ASSUME NEW p \in Procs, EnqueueWait(p) \/ Flush(p) PROVE FALSE
      BY <1>2, <2>2, <3>1, Hand DEF EnqueueWait, Flush
    <3>2. ASSUME NEW p \in Procs, NEW q \in Procs \ {p}, EnqueueFull(p, q) PROVE FALSE
      BY <1>2, <2>2, <3>2, Hand DEF EnqueueFull
    <3>3. PICK p \in Procs, t \in Subs : TimerFires(p, t)
      BY <1>2, <2>2, <3>1, <3>2, TimerTouches
    <3>4. t = s /\ proc'[p] = At("flush", s)
      BY <1>2, <2>2, <3>3 DEF TimerFires, Start
    <3>5. At("flush", s).pc = "flush" /\ At("flush", s).sub = s
      BY AtWellformed
    <3>. QED  BY <3>4, <3>5
  <2>. QED  BY <2>1, <2>2
<1>. QED  BY <1>1, <1>2 DEF FlushComing

\* No notification waits in a short batch without a flush on its way: however
\* the timer, a full batch and an explicit flush race.
THEOREM BatchFlushSafe == Spec => []QueueHasFlush
<1>1. Init => FlushComing
  BY DEF Init, FlushComing
<1>2. Typed /\ FlushComing /\ [Next]_vars => FlushComing'
  BY FlushStep DEF Typed
<1>3. Typed /\ FlushComing => QueueHasFlush
  BY DEF Typed, TypeOK, FlushComing, QueueHasFlush
<1>. QED  BY <1>1, <1>2, <1>3, TypedInvariant, PTL DEF Spec

\* No table ever holds a notification that nobody is coming for: not what a
\* schedule gave up on, not what a pause parked, not a short batch.
THEOREM NothingStrandedSafe == Spec => []NothingStranded
<1>1. RetainedMeansDown /\ ParkedMeansPaused /\ QueueHasFlush => NothingStranded
  BY DEF NothingStranded
<1>. QED  BY <1>1, RetainedSafe, PausedQueueSafe, BatchFlushSafe, PTL

-----------------------------------------------------------------------------
(***************************************************************************)
(* No notification is lost                                                 *)
(***************************************************************************)

InTables(n) ==
  \E s \in Subs : n \in Range(queue[s]) \cup Range(pending[s]) \cup Range(queued[s])

InHands(n) ==
  \E p \in Procs : n \in Range(proc[p].batch) \cup Range(proc[p].todo)

Accounted(n) == n \in acked \cup dropped \/ InTables(n) \/ InHands(n)

AllAccounted == \A n \in 1..Len(to) : Accounted(n)

\* The same statement, place by place.
LEMMA AccountedIsKept == AllAccounted => NothingLost
<1>1. ASSUME NEW n, Accounted(n)
      PROVE  n \in acked \cup dropped \cup UNION {Range(Held(h)) : h \in Holder}
  <2>1. ASSUME NEW s \in Subs
        PROVE  /\ [kind |-> "queue", at |-> s] \in Holder
               /\ [kind |-> "pending", at |-> s] \in Holder
               /\ [kind |-> "queued", at |-> s] \in Holder
    BY <2>1 DEF Holder
  <2>2. ASSUME NEW p \in Procs
        PROVE  [kind |-> "batch", at |-> p] \in Holder /\ [kind |-> "todo", at |-> p] \in Holder
    BY <2>2 DEF Holder
  <2>3. ASSUME NEW x
        PROVE  /\ Held([kind |-> "queue", at |-> x]) = queue[x]
               /\ Held([kind |-> "pending", at |-> x]) = pending[x]
               /\ Held([kind |-> "queued", at |-> x]) = queued[x]
               /\ Held([kind |-> "batch", at |-> x]) = proc[x].batch
               /\ Held([kind |-> "todo", at |-> x]) = proc[x].todo
    BY DEF Held
  <2>4. CASE InTables(n)
    BY <2>1, <2>3, <2>4 DEF InTables
  <2>5. CASE InHands(n)
    BY <2>2, <2>3, <2>5 DEF InHands
  <2>. QED  BY <1>1, <2>4, <2>5 DEF Accounted
<1>. QED  BY <1>1 DEF AllAccounted, NothingLost

\* What was acknowledged or dropped stays so.
LEMMA OutcomeGrows ==
  ASSUME [Next]_vars
  PROVE  acked \subseteq acked' /\ dropped \subseteq dropped'
<1>1. CASE UNCHANGED vars
  BY <1>1 DEF vars
<1>2. ASSUME NEW p \in Procs, Run(p) PROVE acked \subseteq acked' /\ dropped \subseteq dropped'
  <2>1. FlushLookup(p) \/ SendOk(p) \/ WakeUp(p) => acked \subseteq acked' /\ dropped \subseteq dropped'
    BY DEF FlushLookup, SendOk, WakeUp
  <2>2. EnqueuePark(p) \/ EnqueueWait(p) \/ Flush(p) \/ DeliverPark(p) => UNCHANGED outcome
    BY DEF EnqueuePark, EnqueueWait, Flush, DeliverPark
  <2>3. SendFails(p) \/ Retain(p) \/ Deactivate(p) \/ Redeliver(p) => UNCHANGED outcome
    BY DEF SendFails, Retain, Deactivate, Redeliver
  <2>4. \A q \in Procs : EnqueueFull(p, q) => UNCHANGED outcome
    BY DEF EnqueueFull
  <2>. QED  BY <1>2, <2>1, <2>2, <2>3, <2>4 DEF Run, outcome
<1>3. ASSUME NEW p \in Procs, NEW s \in Subs, TimerFires(p, s) \/ Environment(p, s)
      PROVE  UNCHANGED outcome
  BY <1>3 DEF TimerFires, Environment, Notify, ClientTest, SimNotifications, Produce,
              Activate, ClientDeactivates, Delete, UpdateSize, Pause, Resume
<1>. QED  BY <1>1, <1>2, <1>3 DEF Next, outcome

\* Which steps touch what is parked.
LEMMA QueuedTouches ==
  ASSUME [Next]_vars
  PROVE  \/ UNCHANGED queued
         \/ \E p \in Procs : EnqueuePark(p) \/ DeliverPark(p)
         \/ \E p \in Procs, s \in Subs : Resume(p, s)
<1>1. Quiet => UNCHANGED queued
  BY DEF Quiet
<1>2. ASSUME NEW p \in Procs,
             EnqueueWait(p) \/ Flush(p) \/ Retain(p) \/ Deactivate(p) \/ Redeliver(p)
      PROVE  UNCHANGED queued
  BY <1>2 DEF EnqueueWait, Flush, Retain, Deactivate, Redeliver, tables
<1>3. ASSUME NEW p \in Procs, NEW q \in Procs, EnqueueFull(p, q) PROVE UNCHANGED queued
  BY <1>3 DEF EnqueueFull
<1>4. ASSUME NEW p \in Procs, NEW s \in Subs,
             TimerFires(p, s) \/ Activate(p, s) \/ ClientDeactivates(s) \/ Delete(s) \/ Pause(s)
      PROVE  UNCHANGED queued
  BY <1>4 DEF TimerFires, Activate, ClientDeactivates, Delete, Pause, tables
<1>5. ASSUME NEW p, NEW s, NEW k, NEW fl, Produce(p, s, k, fl) PROVE UNCHANGED queued
  BY <1>5 DEF Produce, tables
<1>. QED  BY <1>1, <1>2, <1>3, <1>4, <1>5, Touches

\* A notification in a table stays there or goes into somebody's hands.
LEMMA TablesStep ==
  ASSUME TypeOK, Hands, [Next]_vars, NEW n, InTables(n)
  PROVE  InTables(n)' \/ InHands(n)'
<1>. USE DEF TypeOK
<1>1. PICK s \in Subs : n \in Range(queue[s]) \cup Range(pending[s]) \cup Range(queued[s])
  BY DEF InTables
<1>2. CASE n \in Range(queue[s])
  <2>1. CASE queue'[s] = queue[s]
    BY <1>2, <2>1 DEF InTables
  <2>2. ASSUME NEW p \in Procs, EnqueueWait(p), queue'[s] # queue[s] PROVE InTables(n)'
    <3>1. proc[p].sub = s /\ queue'[s] = Append(queue[s], Head(proc[p].todo))
      BY <2>2, Hand DEF EnqueueWait
    <3>2. Head(proc[p].todo) \in Notes
      BY <2>2, Hand, RangeHeadTail DEF EnqueueWait, Wellformed
    <3>3. Range(Append(queue[s], Head(proc[p].todo))) = Range(queue[s]) \cup {Head(proc[p].todo)}
      BY <3>2, RangeAppend
    <3>. QED  BY <1>2, <3>1, <3>3 DEF InTables
  <2>3. ASSUME NEW p \in Procs, Flush(p), queue'[s] # queue[s] PROVE InHands(n)'
    <3>1. proc[p].sub = s /\ queue[s] # <<>>
      BY <2>3, Hand DEF Flush
    <3>2. proc'[p] = [At("lookup", s) EXCEPT !.batch = queue[s]]
      BY <2>3, <3>1 DEF Flush, Goto
    <3>3. proc'[p].batch = queue[s]
      BY <3>2, LookupWellformed
    <3>. QED  BY <1>2, <3>3 DEF InHands
  <2>4. ASSUME NEW p \in Procs, NEW q \in Procs \ {p}, EnqueueFull(p, q), queue'[s] # queue[s]
        PROVE  InHands(n)'
    <3>. DEFINE b == Append(queue[s], Head(proc[p].todo))
    <3>1. proc[p].sub = s /\ proc'[q] = Courier(s, b)
      BY <2>4, Hand DEF EnqueueFull
    <3>2. Head(proc[p].todo) \in Notes
      BY <2>4, Hand, RangeHeadTail DEF EnqueueFull, Wellformed
    <3>3. b \in Seq(Notes) /\ n \in Range(b)
      BY <1>2, <3>2, RangeAppend, AppendProperties
    <3>. HIDE DEF b
    <3>4. proc'[q].batch = b
      BY <3>1, <3>3, CourierWellformed
    <3>. QED  BY <3>3, <3>4 DEF InHands
  <2>5. ASSUME NEW p \in Procs, NEW t \in Subs, TimerFires(p, t) PROVE queue'[s] = queue[s]
    BY <2>5 DEF TimerFires
  <2>. QED  BY <2>1, <2>2, <2>3, <2>4, <2>5, TimerTouches
<1>3. CASE n \in Range(pending[s])
  <2>1. CASE pending'[s] = pending[s]
    BY <1>3, <2>1 DEF InTables
  <2>2. ASSUME NEW p \in Procs, Retain(p), pending'[s] # pending[s] PROVE InTables(n)'
    <3>1. pending'[s] = pending[s] \o proc[p].batch
      BY <2>2, Hand DEF Retain
    <3>2. proc[p].batch \in Seq(Notes)
      BY Hand
    <3>3. Range(pending[s] \o proc[p].batch) = Range(pending[s]) \cup Range(proc[p].batch)
      BY <3>2, RangeJoin
    <3>. QED  BY <1>3, <3>1, <3>3 DEF InTables
  <2>3. ASSUME NEW p \in Procs, Redeliver(p), pending'[s] # pending[s] PROVE InHands(n)'
    <3>1. proc[p].sub = s /\ pending[s] # <<>>
      BY <2>3, Hand DEF Redeliver
    <3>2. proc'[p] = Caller(s, pending[s], FALSE)
      BY <2>3, <3>1 DEF Redeliver, Goto
    <3>3. Caller(s, pending[s], FALSE).todo = pending[s]
      BY IdleWellformed DEF Caller, At, Wellformed, Goroutine
    <3>. QED  BY <1>3, <3>2, <3>3 DEF InHands
  <2>. QED  BY <2>1, <2>2, <2>3, RetainedTouches
<1>4. CASE n \in Range(queued[s])
  <2>1. CASE queued'[s] = queued[s]
    BY <1>4, <2>1 DEF InTables
  <2>2. ASSUME NEW p \in Procs, EnqueuePark(p), queued'[s] # queued[s] PROVE InTables(n)'
    <3>1. queued'[s] = Append(queued[s], Head(proc[p].todo))
      BY <2>2, Hand DEF EnqueuePark
    <3>2. Head(proc[p].todo) \in Notes
      BY <2>2, Hand, RangeHeadTail DEF EnqueuePark, Wellformed
    <3>3. Range(Append(queued[s], Head(proc[p].todo))) = Range(queued[s]) \cup {Head(proc[p].todo)}
      BY <3>2, RangeAppend
    <3>. QED  BY <1>4, <3>1, <3>3 DEF InTables
  <2>3. ASSUME NEW p \in Procs, DeliverPark(p), queued'[s] # queued[s] PROVE InTables(n)'
    <3>1. /\ proc[p].sub \in Subs
          /\ queued' = [queued EXCEPT ![proc[p].sub] = queued[proc[p].sub] \o proc[p].batch]
      BY <2>3, Hand DEF DeliverPark
    <3>2. proc[p].sub = s
      BY <2>3, <3>1
    <3>3. queued'[s] = queued[s] \o proc[p].batch
      BY <3>1, <3>2
    <3>4. proc[p].batch \in Seq(Notes)
      BY Hand
    <3>5. Range(queued[s] \o proc[p].batch) = Range(queued[s]) \cup Range(proc[p].batch)
      BY <3>4, RangeJoin
    <3>. QED  BY <1>4, <3>3, <3>5 DEF InTables
  <2>4. ASSUME NEW p \in Procs, NEW t \in Subs, Resume(p, t), queued'[s] # queued[s]
        PROVE  InHands(n)'
    <3>1. t = s /\ queued[s] # <<>>
      BY <2>4 DEF Resume
    <3>2. proc'[p] = Release(s, queued[s], size[s])
      BY <2>4, <3>1 DEF Resume, Start
    <3>3. Range(proc'[p].batch) \cup Range(proc'[p].todo) = Range(queued[s])
      BY <3>2, ReleaseWellformed
    <3>. QED  BY <1>4, <3>3 DEF InHands
  <2>. QED  BY <2>1, <2>2, <2>3, <2>4, QueuedTouches
<1>. QED  BY <1>1, <1>2, <1>3, <1>4

\* What a goroutine has in hand stays there, goes on to another, comes to rest
\* in a table, or is done with.
LEMMA HandsStep ==
  ASSUME TypeOK, Hands, [Next]_vars, NEW n, InHands(n)
  PROVE  Accounted(n)'
<1>. USE DEF TypeOK
<1>. PICK p \in Procs : n \in Range(proc[p].batch) \cup Range(proc[p].todo)
  BY DEF InHands
<1>. DEFINE g == proc[p]  s == g.sub
<1>1. /\ Wellformed(g) /\ g \in Goroutine /\ s \in Subs
      /\ g.batch \in Seq(Notes) /\ g.todo \in Seq(Notes)
  BY Hand
<1>2. Range(<<>>) = {}
  BY DEF Range
<1>3. g.pc # "idle"
  BY <1>1, <1>2 DEF Wellformed
<1>4. ASSUME NEW q \in Procs, n \in Range(proc'[q].batch) \cup Range(proc'[q].todo)
      PROVE  Accounted(n)'
  BY <1>4 DEF Accounted, InHands
<1>5. CASE proc'[p] = proc[p]
  BY <1>4, <1>5
<1>6. ASSUME n \in Range(g.todo), proc'[p] = NextBatch(g) PROVE Accounted(n)'
  BY <1>1, <1>4, <1>6, NextBatchWellformed
<1>7. ASSUME g.todo # <<>>, proc'[p] = NextItem(g), n # Head(g.todo), n \in Range(g.todo)
      PROVE  Accounted(n)'
  <2>1. n \in Range(Tail(g.todo))
    BY <1>1, <1>7, RangeHeadTail
  <2>2. NextItem(g).todo = Tail(g.todo)
    BY <1>1, <1>7, NextItemWellformed
  <2>. QED  BY <1>4, <1>7, <2>1, <2>2
<1>8. ASSUME n \in Range(queue'[s]) \cup Range(pending'[s]) \cup Range(queued'[s])
      PROVE  Accounted(n)'
  BY <1>1, <1>8 DEF Accounted, InTables
<1>9. ASSUME proc'[p].batch = g.batch, proc'[p].todo = g.todo PROVE Accounted(n)'
  BY <1>4, <1>9
<1>10. ASSUME g.pc \in {"park", "append"}
       PROVE  /\ g.todo # <<>> /\ n \in Range(g.todo) /\ Head(g.todo) \in Notes
              /\ \A t \in Seq(Notes) : Head(g.todo) \in Range(Append(t, Head(g.todo)))
  <2>1. g.todo # <<>> /\ n \in Range(g.todo)
    BY <1>1, <1>2, <1>10 DEF Wellformed
  <2>2. Head(g.todo) \in Notes
    BY <1>1, <2>1, RangeHeadTail
  <2>. QED  BY <2>1, <2>2, RangeAppend
<1>11. CASE EnqueuePark(p)
  <2>1. CASE paused[s]
    <3>1. queued'[s] = Append(queued[s], Head(g.todo)) /\ proc'[p] = NextItem(g)
      BY <1>1, <1>11, <2>1 DEF EnqueuePark, Goto
    <3>. QED  BY <1>1, <1>7, <1>8, <1>10, <1>11, <3>1 DEF EnqueuePark
  <2>2. CASE ~paused[s]
    <3>1. proc'[p] = [g EXCEPT !.pc = "append", !.size = size[s]]
      BY <1>11, <2>2 DEF EnqueuePark, Goto
    <3>2. g.todo # <<>> /\ g.batch = <<>> /\ size[s] \in BatchSizes
      BY <1>1, <1>11 DEF EnqueuePark, Wellformed
    <3>3. proc'[p].batch = g.batch /\ proc'[p].todo = g.todo
      BY <1>1, <3>1 DEF Goroutine
    <3>. QED  BY <1>9, <3>3
  <2>. QED  BY <2>1, <2>2
<1>12. CASE EnqueueWait(p)
  <2>1. queue'[s] = Append(queue[s], Head(g.todo)) /\ proc'[p] = NextItem(g)
    BY <1>1, <1>12 DEF EnqueueWait, Goto
  <2>. QED  BY <1>1, <1>7, <1>8, <1>10, <1>12, <2>1 DEF EnqueueWait
<1>13. ASSUME NEW q \in Procs \ {p}, EnqueueFull(p, q) PROVE Accounted(n)'
  <2>. DEFINE b == Append(queue[s], Head(g.todo))
  <2>1. g.pc = "append" /\ proc'[p] = NextItem(g) /\ proc'[q] = Courier(s, b)
    BY <1>13 DEF EnqueueFull
  <2>2. b \in Seq(Notes) /\ Head(g.todo) \in Range(b)
    BY <1>1, <1>10, <2>1, AppendProperties
  <2>. HIDE DEF b
  <2>3. Courier(s, b).batch = b
    BY <1>1, <2>2, CourierWellformed
  <2>4. CASE n = Head(g.todo)
    BY <1>4, <2>1, <2>2, <2>3, <2>4
  <2>. QED  BY <1>7, <1>10, <2>1, <2>4
<1>14. ~Flush(p) /\ ~Redeliver(p)
  BY <1>1, <1>2 DEF Flush, Redeliver, Wellformed
<1>15. CASE FlushLookup(p)
  <2>1. n \in Range(g.batch)
    BY <1>1, <1>2, <1>15 DEF FlushLookup, Wellformed
  <2>2. CASE Exists(s)
    <3>1. proc'[p] = Courier(s, g.batch)
      BY <1>15, <2>2 DEF FlushLookup, Goto
    <3>2. Courier(s, g.batch).batch = g.batch
      BY <1>1, CourierWellformed
    <3>. QED  BY <1>4, <2>1, <3>1, <3>2
  <2>3. CASE ~Exists(s)
    BY <1>15, <2>1, <2>3 DEF FlushLookup, Accounted
  <2>. QED  BY <2>2, <2>3
<1>16. CASE DeliverPark(p)
  <2>1. CASE paused[s]
    <3>1. queued'[s] = queued[s] \o g.batch /\ proc'[p] = NextBatch(g)
      BY <1>1, <1>16, <2>1 DEF DeliverPark, Goto
    <3>2. queued[s] \in Seq(Notes)
      BY <1>1
    <3>3. Range(queued[s] \o g.batch) = Range(queued[s]) \cup Range(g.batch)
      BY <1>1, <3>2, RangeJoin
    <3>. QED  BY <1>6, <1>8, <3>1, <3>3
  <2>2. CASE ~paused[s]
    <3>1. proc'[p] = [g EXCEPT !.pc = "send"]
      BY <1>16, <2>2 DEF DeliverPark, Goto
    <3>2. proc'[p].batch = g.batch /\ proc'[p].todo = g.todo
      BY <1>1, <3>1 DEF Goroutine
    <3>. QED  BY <1>9, <3>2
  <2>. QED  BY <2>1, <2>2
<1>17. CASE SendOk(p)
  <2>1. acked' = acked \cup Range(g.batch) /\ proc'[p] = NextBatch(g)
    BY <1>17 DEF SendOk, Goto
  <2>. QED  BY <1>6, <2>1 DEF Accounted
<1>18. CASE SendFails(p)
  <2>1. CASE g.retry < MaxRetries
    <3>1. proc'[p] = [g EXCEPT !.pc = "wait", !.retry = g.retry + 1]
      BY <1>18, <2>1 DEF SendFails, Goto
    <3>2. g.retry + 1 \in 1..MaxRetries
      BY <2>1, Hand, DispatcherAssumption
    <3>3. proc'[p].batch = g.batch /\ proc'[p].todo = g.todo
      BY <1>1, <3>1 DEF Goroutine
    <3>. QED  BY <1>9, <3>3
  <2>2. CASE ~(g.retry < MaxRetries)
    BY <1>1, <1>9, <1>18, <2>2, Sends DEF SendFails, Goto
  <2>. QED  BY <2>1, <2>2
<1>19. CASE WakeUp(p)
  <2>1. CASE Exists(s)
    <3>1. proc'[p] = [g EXCEPT !.pc = "send"]
      BY <1>19, <2>1 DEF WakeUp, Goto
    <3>2. proc'[p].batch = g.batch /\ proc'[p].todo = g.todo
      BY <1>1, <3>1 DEF Goroutine
    <3>. QED  BY <1>9, <3>2
  <2>2. CASE ~Exists(s)
    <3>1. dropped' = dropped \cup Range(g.batch) /\ proc'[p] = NextBatch(g)
      BY <1>19, <2>2 DEF WakeUp, Goto
    <3>. QED  BY <1>6, <3>1 DEF Accounted
  <2>. QED  BY <2>1, <2>2
<1>20. CASE Retain(p)
  <2>1. pending'[s] = pending[s] \o g.batch
    BY <1>1, <1>20 DEF Retain
  <2>2. pending[s] \in Seq(Notes)
    BY <1>1
  <2>3. Range(pending[s] \o g.batch) = Range(pending[s]) \cup Range(g.batch)
    BY <1>1, <2>2, RangeJoin
  <2>4. proc'[p] = [g EXCEPT !.pc = "deactivate", !.batch = <<>>]
    BY <1>20 DEF Retain, Goto
  <2>5. proc'[p].todo = g.todo
    BY <1>1, <2>4, Retains
  <2>. QED  BY <1>4, <1>8, <2>1, <2>3, <2>5
<1>21. CASE Deactivate(p)
  <2>1. n \in Range(g.todo) /\ proc'[p] = NextBatch(g)
    BY <1>1, <1>2, <1>21 DEF Deactivate, Goto, Wellformed
  <2>. QED  BY <1>6, <2>1
<1>. QED
  BY <1>3, <1>5, <1>11, <1>12, <1>13, <1>14, <1>15, <1>16, <1>17, <1>18, <1>19, <1>20,
     <1>21, OwnStep DEF Run

\* A notification is produced into its caller's hands.
LEMMA FreshStep ==
  ASSUME TypeOK, Hands, [Next]_vars, NEW n \in 1..Len(to'), n \notin 1..Len(to)
  PROVE  InHands(n)'
<1>1. to' # to
  OBVIOUS
<1>2. \E p \in Procs, s \in Subs, k \in Nat \ {0}, fl \in BOOLEAN : Produce(p, s, k, fl)
  <2>1. ASSUME Quiet PROVE to' = to
    BY <2>1 DEF Quiet
  <2>2. ASSUME NEW p \in Procs,
               \/ EnqueuePark(p) \/ EnqueueWait(p) \/ Flush(p) \/ DeliverPark(p)
               \/ Retain(p) \/ Deactivate(p) \/ Redeliver(p)
        PROVE  to' = to
    BY <2>2 DEF EnqueuePark, EnqueueWait, Flush, DeliverPark, Retain, Deactivate, Redeliver
  <2>3. ASSUME NEW p \in Procs, NEW q \in Procs \ {p}, EnqueueFull(p, q) PROVE to' = to
    BY <2>3 DEF EnqueueFull
  <2>4. ASSUME NEW p \in Procs, NEW s \in Subs,
               \/ TimerFires(p, s) \/ Activate(p, s) \/ ClientDeactivates(s)
               \/ Delete(s) \/ Pause(s) \/ Resume(p, s)
        PROVE  to' = to
    BY <2>4 DEF TimerFires, Activate, ClientDeactivates, Delete, Pause, Resume
  <2>. QED  BY <1>1, <2>1, <2>2, <2>3, <2>4, Touches
<1>3. PICK p \in Procs, s \in Subs, k \in Nat \ {0}, fl \in BOOLEAN : Produce(p, s, k, fl)
  BY <1>2
<1>4. Len(to') = Len(to) + k /\ Len(to) \in Nat
  BY <1>3, ToGrows, LenProperties DEF Produce, TypeOK
<1>5. Fresh(k) \in Seq(Notes) /\ Fresh(k) # <<>> /\ n \in Range(Fresh(k))
  BY <1>3, <1>4, FreshNotes DEF Produce
<1>6. proc'[p] = Caller(s, Fresh(k), fl)
  BY <1>3 DEF Produce, Start, TypeOK
<1>7. Caller(s, Fresh(k), fl).todo = Fresh(k)
  BY <1>5, CallerWellformed
<1>. QED  BY <1>5, <1>6, <1>7 DEF InHands

\* Every notification produced is accounted for.
LEMMA AccountedInvariant == Spec => []AllAccounted
<1>1. Init => AllAccounted
  BY DEF Init, AllAccounted
<1>2. Typed /\ AllAccounted /\ [Next]_vars => AllAccounted'
  <2>. SUFFICES ASSUME TypeOK, Hands, AllAccounted, [Next]_vars, NEW n \in 1..Len(to')
                PROVE  Accounted(n)'
    BY DEF Typed, AllAccounted
  <2>1. CASE n \notin 1..Len(to)
    BY <2>1, FreshStep DEF Accounted
  <2>2. CASE n \in acked \cup dropped
    BY <2>2, OutcomeGrows DEF Accounted
  <2>3. CASE InTables(n)
    BY <2>3, TablesStep DEF Accounted
  <2>4. CASE InHands(n)
    BY <2>4, HandsStep
  <2>. QED  BY <2>1, <2>2, <2>3, <2>4 DEF AllAccounted, Accounted
<1>. QED  BY <1>1, <1>2, TypedInvariant, PTL DEF Spec

\* Every notification the bank produced is, at every moment, acknowledged,
\* dropped with its deleted subscription, in a table or in a goroutine's hands.
THEOREM NoNotificationLost == Spec => []NothingLost
BY AccountedInvariant, AccountedIsKept, PTL
-----------------------------------------------------------------------------
(***************************************************************************)
(* Moving notifications about                                              *)
(***************************************************************************)

\* Two sequences joined repeat nothing exactly if neither does and they have
\* nothing in common.
LEMMA JoinDistinct ==
  ASSUME NEW S, NEW a \in Seq(S), NEW b \in Seq(S)
  PROVE  IsInjective(a \o b) <=>
           IsInjective(a) /\ IsInjective(b) /\ Range(a) \cap Range(b) = {}
<1>. DEFINE c == a \o b
<1>1. PICK m \in Nat, n \in Nat :
        /\ m = Len(a) /\ n = Len(b) /\ DOMAIN a = 1..m /\ DOMAIN b = 1..n /\ DOMAIN c = 1..(m + n)
        /\ \A i \in 1..(m + n) : c[i] = IF i <= m THEN a[i] ELSE b[i - m]
  BY ConcatProperties, LenProperties
<1>. HIDE DEF c
<1>2. /\ \A i \in 1..m : i \in 1..(m + n) /\ c[i] = a[i]
      /\ \A i \in 1..n : i + m \in 1..(m + n) /\ c[i + m] = b[i]
  <2>1. ASSUME NEW i \in 1..m PROVE i \in 1..(m + n) /\ c[i] = a[i]
    BY <1>1
  <2>2. ASSUME NEW i \in 1..n PROVE i + m \in 1..(m + n) /\ c[i + m] = b[i]
    <3>1. PICK j : j = i + m
      OBVIOUS
    <3>2. j \in 1..(m + n) /\ ~(j <= m) /\ j - m = i
      BY <1>1, <3>1
    <3>3. c[j] = b[i]
      BY <1>1, <3>2
    <3>. QED  BY <3>1, <3>2, <3>3
  <2>. QED  BY <2>1, <2>2
<1>3. ASSUME IsInjective(c)
      PROVE  IsInjective(a) /\ IsInjective(b) /\ Range(a) \cap Range(b) = {}
  <2>0. \A i, j \in 1..(m + n) : c[i] = c[j] => i = j
    BY <1>1, <1>3 DEF IsInjective
  <2>1. \A i, j \in 1..m : a[i] = a[j] => i = j
    BY <1>2, <2>0
  <2>2. ASSUME NEW i \in 1..n, NEW j \in 1..n, b[i] = b[j] PROVE i = j
    <3>1. i + m = j + m
      BY <1>2, <2>0, <2>2
    <3>. QED  BY <1>1, <3>1
  <2>3. ASSUME NEW i \in 1..m, NEW j \in 1..n, a[i] = b[j] PROVE FALSE
    <3>1. i = j + m
      BY <1>2, <2>0, <2>3
    <3>. QED  BY <1>1, <3>1
  <2>. QED  BY <1>1, <2>1, <2>2, <2>3 DEF IsInjective, Range
<1>4. ASSUME IsInjective(a), IsInjective(b), Range(a) \cap Range(b) = {},
             NEW i \in 1..(m + n), NEW j \in 1..(m + n), c[i] = c[j]
      PROVE  i = j
  <2>1. \A k \in 1..(m + n) : \/ k \in 1..m /\ c[k] = a[k]
                              \/ k > m /\ k - m \in 1..n /\ c[k] = b[k - m]
    BY <1>1
  <2>2. \A k \in 1..m, l \in 1..n : a[k] # b[l]
    BY <1>1, <1>4 DEF Range
  <2>3. \A k, l \in 1..n : b[k] = b[l] => k = l
    BY <1>1, <1>4 DEF IsInjective
  <2>4. \A k, l \in 1..m : a[k] = a[l] => k = l
    BY <1>1, <1>4 DEF IsInjective
  <2>5. CASE i \in 1..m /\ c[i] = a[i] /\ j \in 1..m /\ c[j] = a[j]
    BY <1>4, <2>4, <2>5
  <2>6. CASE i \in 1..m /\ c[i] = a[i] /\ j - m \in 1..n /\ c[j] = b[j - m]
    BY <1>4, <2>2, <2>6
  <2>7. CASE j \in 1..m /\ c[j] = a[j] /\ i - m \in 1..n /\ c[i] = b[i - m]
    BY <1>4, <2>2, <2>7
  <2>8. CASE /\ i - m \in 1..n /\ c[i] = b[i - m] /\ j - m \in 1..n /\ c[j] = b[j - m]
    <3>1. i - m = j - m
      BY <1>4, <2>3, <2>8
    <3>. QED  BY <1>1, <3>1
  <2>. QED  BY <2>1, <2>5, <2>6, <2>7, <2>8
<1>. QED  BY <1>1, <1>3, <1>4 DEF IsInjective, c

\* Each of a family of sequences repeats nothing and holds only what is live,
\* and no two of them have anything in common.
Apart(C, live) ==
  /\ \A h \in DOMAIN C : IsInjective(C[h]) /\ Range(C[h]) \subseteq live
  /\ \A h, k \in DOMAIN C : h # k => Range(C[h]) \cap Range(C[k]) = {}

\* From one family over K to the next: a leaves the front of sequence h, a
\* joins sequence h, a goes from the front of h to the end of k.
Families(S, K, C, D) == C \in [K -> Seq(S)] /\ D \in [K -> Seq(S)]

Leaving(S, K, C, D, h, a) ==
  /\ Families(S, K, C, D) /\ h \in K /\ a \in Seq(S)
  /\ \E r \in Seq(S) : C[h] = a \o r /\ D[h] = r
  /\ \A j \in K \ {h} : D[j] = C[j]

Entering(S, K, C, D, h, a) ==
  /\ Families(S, K, C, D) /\ h \in K /\ a \in Seq(S)
  /\ D[h] = C[h] \o a
  /\ \A j \in K \ {h} : D[j] = C[j]

Passing(S, K, C, D, h, k, a) ==
  /\ Families(S, K, C, D) /\ h \in K /\ k \in K \ {h} /\ a \in Seq(S)
  /\ \E r \in Seq(S) : C[h] = a \o r /\ D[h] = r
  /\ D[k] = C[k] \o a
  /\ \A j \in K \ {h, k} : D[j] = C[j]

\* What leaves a sequence from its front need not be live any more.
LEMMA Leaves ==
  ASSUME NEW S, NEW K, NEW C, NEW D, NEW live, NEW h, NEW a,
         Leaving(S, K, C, D, h, a), Apart(C, live)
  PROVE  Apart(D, live \ Range(a)) /\ Range(a) \subseteq live /\ IsInjective(a)
<1>. /\ C \in [K -> Seq(S)] /\ D \in [K -> Seq(S)] /\ h \in K /\ a \in Seq(S)
     /\ \A j \in K \ {h} : D[j] = C[j]
  BY DEF Leaving, Families
<1>0. PICK r \in Seq(S) : C[h] = a \o r /\ D[h] = r
  BY DEF Leaving
<1>1. IsInjective(a) /\ IsInjective(r) /\ Range(a) \cap Range(r) = {}
  <2>1. IsInjective(a \o r)
    BY <1>0 DEF Apart
  <2>. QED  BY <2>1, JoinDistinct
<1>2. Range(C[h]) = Range(a) \cup Range(r)
  BY <1>0, RangeJoin
<1>3. DOMAIN C = K /\ DOMAIN D = K
  OBVIOUS
<1>4. \A j \in K : IsInjective(D[j]) /\ Range(D[j]) \subseteq live \ Range(a)
  BY <1>0, <1>1, <1>2, <1>3 DEF Apart
<1>5. \A j, k \in K : j # k => Range(D[j]) \cap Range(D[k]) = {}
  BY <1>0, <1>2, <1>3 DEF Apart
<1>. QED  BY <1>1, <1>2, <1>3, <1>4, <1>5 DEF Apart

\* What is not live and has no repetitions may join a sequence.
LEMMA Enters ==
  ASSUME NEW S, NEW K, NEW C, NEW D, NEW live, NEW h, NEW a,
         Entering(S, K, C, D, h, a), Apart(C, live),
         IsInjective(a), Range(a) \cap live = {}
  PROVE  Apart(D, live \cup Range(a))
<1>. /\ C \in [K -> Seq(S)] /\ D \in [K -> Seq(S)] /\ h \in K /\ a \in Seq(S)
     /\ D[h] = C[h] \o a /\ \A j \in K \ {h} : D[j] = C[j]
  BY DEF Entering, Families
<1>1. DOMAIN C = K /\ DOMAIN D = K
  OBVIOUS
<1>2. IsInjective(D[h]) /\ Range(D[h]) = Range(C[h]) \cup Range(a)
  BY <1>1, JoinDistinct, RangeJoin DEF Apart
<1>3. \A j \in K : IsInjective(D[j]) /\ Range(D[j]) \subseteq live \cup Range(a)
  BY <1>1, <1>2 DEF Apart
<1>4. \A j, k \in K : j # k => Range(D[j]) \cap Range(D[k]) = {}
  BY <1>1, <1>2 DEF Apart
<1>. QED  BY <1>1, <1>3, <1>4 DEF Apart

\* The front of one sequence is added to another.
LEMMA Passes ==
  ASSUME NEW S, NEW K, NEW C, NEW D, NEW live, NEW h, NEW k, NEW a,
         Passing(S, K, C, D, h, k, a), Apart(C, live)
  PROVE  Apart(D, live)
<1>. /\ C \in [K -> Seq(S)] /\ D \in [K -> Seq(S)] /\ h \in K /\ k \in K \ {h}
     /\ a \in Seq(S) /\ D[k] = C[k] \o a /\ \A j \in K \ {h, k} : D[j] = C[j]
  BY DEF Passing, Families
<1>0. PICK r \in Seq(S) : C[h] = a \o r /\ D[h] = r
  BY DEF Passing
<1>1. IsInjective(a) /\ IsInjective(r) /\ Range(a) \cap Range(r) = {}
  <2>1. IsInjective(a \o r)
    BY <1>0 DEF Apart
  <2>. QED  BY <2>1, JoinDistinct
<1>2. Range(C[h]) = Range(a) \cup Range(r) /\ Range(D[k]) = Range(C[k]) \cup Range(a)
  BY <1>0, RangeJoin
<1>3. DOMAIN C = K /\ DOMAIN D = K
  OBVIOUS
<1>4. IsInjective(C[k]) /\ Range(C[k]) \cap Range(a) = {}
  BY <1>0, <1>2, <1>3 DEF Apart
<1>5. IsInjective(D[k])
  BY <1>1, <1>4, JoinDistinct
<1>6. \A j \in K : IsInjective(D[j]) /\ Range(D[j]) \subseteq live
  BY <1>0, <1>1, <1>2, <1>3, <1>5 DEF Apart
<1>7. \A i, j \in K : i # j => Range(D[i]) \cap Range(D[j]) = {}
  BY <1>0, <1>1, <1>2, <1>3 DEF Apart
<1>. QED  BY <1>3, <1>6, <1>7 DEF Apart

\* A sequence is its head followed by the rest.
LEMMA HeadAndRest ==
  ASSUME NEW S, NEW s \in Seq(S), s # <<>>
  PROVE  s = <<Head(s)>> \o Tail(s)
<1>1. Head(s) \in S /\ Tail(s) \in Seq(S)
  BY HeadTailProperties
<1>2. Len(s) \in Nat \ {0}
  BY EmptySeq, LenProperties
<1>3. 1 \in 1..Len(s) /\ Len(s) \in 1..Len(s)
  BY <1>2
<1>4. SubSeq(s, 1, Len(s)) = <<s[1]>> \o SubSeq(s, 1 + 1, Len(s))
  BY <1>3, SubSeqRecursiveFirst
<1>5. SubSeq(s, 1, Len(s)) = s /\ Tail(s) = SubSeq(s, 2, Len(s))
  BY SubSeqFull, TailIsSubSeq
<1>. QED  BY <1>3, <1>4, <1>5

\* A release carries what it was given, in its order.
LEMMA ReleaseJoins ==
  ASSUME NEW s \in Subs, NEW held \in Seq(Notes), NEW k \in BatchSizes
  PROVE  Release(s, held, k).batch \o Release(s, held, k).todo = held
<1>. DEFINE cut == IF Len(held) < k THEN Len(held) ELSE k
            first == SubSeq(held, 1, cut)
            rest == SubSeq(held, cut + 1, Len(held))
            c == Courier(s, first)
            g == Release(s, held, k)
<1>1. cut \in 0..Len(held)
  BY DispatcherAssumption, LenProperties
<1>2. g = [c EXCEPT !.todo = rest, !.size = k]
  BY DEF Release
<1>. HIDE DEF cut
<1>3. first \in Seq(Notes) /\ rest \in Seq(Notes) /\ first \o rest = held
  BY <1>1, RangeCut
<1>. HIDE DEF first, rest
<1>4. c \in Goroutine /\ c.batch = first
  BY <1>3, CourierWellformed DEF Wellformed
<1>. HIDE DEF c, g
<1>5. g.batch = first /\ g.todo = rest
  BY <1>2, <1>4 DEF Goroutine
<1>6. g.batch \o g.todo = held
  BY <1>3, <1>5
<1>. QED  BY <1>6 DEF g

\* Whoever is done with a batch keeps the rest, in its order.
LEMMA NextBatchJoins ==
  ASSUME NEW g \in Goroutine
  PROVE  /\ NextBatch(g).batch \o NextBatch(g).todo = g.todo
         /\ g.todo # <<>> => NextBatch(g).sub = g.sub
<1>1. g.sub \in Subs /\ g.todo \in Seq(Notes) /\ g.size \in BatchSizes
  BY DEF Goroutine
<1>2. CASE g.todo = <<>>
  <2>1. NextBatch(g).batch = <<>> /\ NextBatch(g).todo = <<>>
    BY <1>2, IdleWellformed DEF NextBatch
  <2>2. g.todo \o g.todo = g.todo
    BY <1>1, <1>2, ConcatEmptySeq
  <2>. QED  BY <1>2, <2>1, <2>2
<1>3. CASE g.todo # <<>>
  <2>. DEFINE r == Release(g.sub, g.todo, g.size)
  <2>1. NextBatch(g) = r
    BY <1>3 DEF NextBatch
  <2>2. r.batch \o r.todo = g.todo
    BY <1>1, ReleaseJoins
  <2>3. r.sub = g.sub
    BY <1>1, ReleaseWellformed
  <2>. HIDE DEF r
  <2>. QED  BY <2>1, <2>2, <2>3
<1>. QED  BY <1>2, <1>3

-----------------------------------------------------------------------------
(***************************************************************************)
(* The places a notification can be in, and what each step does to them    *)
(***************************************************************************)

\* Three tables for each subscription, and what each goroutine has in hand.
QueueOf(s) == [kind |-> "queue", at |-> s]
PendingOf(s) == [kind |-> "pending", at |-> s]
QueuedOf(s) == [kind |-> "queued", at |-> s]
HandOf(p) == [kind |-> "hand", at |-> p]

Boxes == [kind: {"queue", "pending", "queued"}, at: Subs] \cup [kind: {"hand"}, at: Procs]

Content == [h \in Boxes |->
              CASE h.kind = "queue" -> queue[h.at]
                [] h.kind = "pending" -> pending[h.at]
                [] h.kind = "queued" -> queued[h.at]
                [] h.kind = "hand" -> proc[h.at].batch \o proc[h.at].todo]

\* The subscription whose notifications a place is for.
Owner == [h \in Boxes |-> IF h.kind = "hand" THEN proc[h.at].sub ELSE h.at]

Boxed ==
  /\ Content \in [Boxes -> Seq(Notes)]
  /\ \A s \in Subs : /\ Content[QueueOf(s)] = queue[s] /\ Content[PendingOf(s)] = pending[s]
                     /\ Content[QueuedOf(s)] = queued[s]
                     /\ Owner[QueueOf(s)] = s /\ Owner[PendingOf(s)] = s /\ Owner[QueuedOf(s)] = s
  /\ \A p \in Procs : /\ Content[HandOf(p)] = proc[p].batch \o proc[p].todo
                      /\ Owner[HandOf(p)] = proc[p].sub

\* All the places there are, and that they differ.
LEMMA BoxesAre ==
  /\ \A s \in Subs : {QueueOf(s), PendingOf(s), QueuedOf(s)} \subseteq Boxes
  /\ \A p \in Procs : HandOf(p) \in Boxes
  /\ \A h \in Boxes : \/ \E s \in Subs : h \in {QueueOf(s), PendingOf(s), QueuedOf(s)}
                      \/ \E p \in Procs : h = HandOf(p)
  /\ \A s, t \in Subs, p, q \in Procs :
       /\ QueueOf(s) # PendingOf(t) /\ QueueOf(s) # QueuedOf(t) /\ QueueOf(s) # HandOf(p)
       /\ PendingOf(s) # QueuedOf(t) /\ PendingOf(s) # HandOf(p) /\ QueuedOf(s) # HandOf(p)
       /\ s # t => /\ QueueOf(s) # QueueOf(t) /\ PendingOf(s) # PendingOf(t)
                   /\ QueuedOf(s) # QueuedOf(t)
       /\ p # q => HandOf(p) # HandOf(q)
<1>1. ASSUME NEW s \in Subs PROVE {QueueOf(s), PendingOf(s), QueuedOf(s)} \subseteq Boxes
  BY DEF Boxes, QueueOf, PendingOf, QueuedOf
<1>2. ASSUME NEW p \in Procs PROVE HandOf(p) \in Boxes
  BY DEF Boxes, HandOf
<1>3. ASSUME NEW h \in [kind: {"queue", "pending", "queued"}, at: Subs]
      PROVE  \E s \in Subs : h \in {QueueOf(s), PendingOf(s), QueuedOf(s)}
  BY DEF QueueOf, PendingOf, QueuedOf
<1>4. ASSUME NEW h \in [kind: {"hand"}, at: Procs] PROVE \E p \in Procs : h = HandOf(p)
  BY DEF HandOf
<1>5. \A s, t, p :
       /\ QueueOf(s) # PendingOf(t) /\ QueueOf(s) # QueuedOf(t) /\ QueueOf(s) # HandOf(p)
       /\ PendingOf(s) # QueuedOf(t) /\ PendingOf(s) # HandOf(p) /\ QueuedOf(s) # HandOf(p)
  BY DEF QueueOf, PendingOf, QueuedOf, HandOf
<1>6. \A s, t : s # t => /\ QueueOf(s) # QueueOf(t) /\ PendingOf(s) # PendingOf(t)
                         /\ QueuedOf(s) # QueuedOf(t) /\ HandOf(s) # HandOf(t)
  BY DEF QueueOf, PendingOf, QueuedOf, HandOf
<1>. QED  BY <1>1, <1>2, <1>3, <1>4, <1>5, <1>6 DEF Boxes

\* The types give each place its content and its owner.
LEMMA TypedBoxed == TypeOK => Boxed
<1>. SUFFICES ASSUME TypeOK PROVE Boxed
  OBVIOUS
<1>1. ASSUME NEW s \in Subs
      PROVE  /\ Content[QueueOf(s)] = queue[s] /\ Content[PendingOf(s)] = pending[s]
             /\ Content[QueuedOf(s)] = queued[s]
             /\ Owner[QueueOf(s)] = s /\ Owner[PendingOf(s)] = s /\ Owner[QueuedOf(s)] = s
  <2>1. QueueOf(s) \in Boxes /\ PendingOf(s) \in Boxes /\ QueuedOf(s) \in Boxes
    BY BoxesAre
  <2>2. Content[QueueOf(s)] = queue[s]
    BY <2>1 DEF Content, QueueOf
  <2>3. Content[PendingOf(s)] = pending[s]
    BY <2>1 DEF Content, PendingOf
  <2>4. Content[QueuedOf(s)] = queued[s]
    BY <2>1 DEF Content, QueuedOf
  <2>5. Owner[QueueOf(s)] = s /\ Owner[PendingOf(s)] = s /\ Owner[QueuedOf(s)] = s
    BY <2>1 DEF Owner, QueueOf, PendingOf, QueuedOf
  <2>. QED  BY <2>2, <2>3, <2>4, <2>5
<1>2. ASSUME NEW p \in Procs
      PROVE  Content[HandOf(p)] = proc[p].batch \o proc[p].todo /\ Owner[HandOf(p)] = proc[p].sub
  <2>1. HandOf(p) \in Boxes
    BY BoxesAre
  <2>2. Content[HandOf(p)] = proc[p].batch \o proc[p].todo
    BY <2>1 DEF Content, HandOf
  <2>3. Owner[HandOf(p)] = proc[p].sub
    BY <2>1 DEF Owner, HandOf
  <2>. QED  BY <2>2, <2>3
<1>3. ASSUME NEW p \in Procs PROVE proc[p].batch \o proc[p].todo \in Seq(Notes)
  <2>1. proc[p].batch \in Seq(Notes) /\ proc[p].todo \in Seq(Notes)
    BY DEF TypeOK, Goroutine
  <2>. QED  BY <2>1, ConcatProperties
<1>4. ASSUME NEW h \in Boxes PROVE Content[h] \in Seq(Notes)
  <2>1. CASE \E s \in Subs : h \in {QueueOf(s), PendingOf(s), QueuedOf(s)}
    BY <1>1, <2>1 DEF TypeOK
  <2>2. CASE \E p \in Procs : h = HandOf(p)
    BY <1>2, <1>3, <2>2
  <2>. QED  BY <2>1, <2>2, BoxesAre
<1>5. Content \in [Boxes -> Seq(Notes)]
  <2>. DEFINE held(h) == CASE h.kind = "queue" -> queue[h.at]
                           [] h.kind = "pending" -> pending[h.at]
                           [] h.kind = "queued" -> queued[h.at]
                           [] h.kind = "hand" -> proc[h.at].batch \o proc[h.at].todo
  <2>1. Content = [h \in Boxes |-> held(h)]
    BY DEF Content
  <2>. HIDE DEF held
  <2>. QED  BY <1>4, <2>1
<1>. QED  BY <1>1, <1>2, <1>5 DEF Boxed

\* Outside of X everything stays where it is, for the same subscription.
Elsewhere(X) ==
  \A j \in Boxes \ X :
    Content'[j] = Content[j] /\ (Content[j] # <<>> => Owner'[j] = Owner[j])

\* The front a of place h is added to place k.
Pass(h, k, a) ==
  /\ h \in Boxes /\ k \in Boxes \ {h} /\ a \in Seq(Notes)
  /\ \E r \in Seq(Notes) : /\ Content[h] = a \o r /\ Content'[h] = r
                           /\ r # <<>> => Owner'[h] = Owner[h]
  /\ Content'[k] = Content[k] \o a
  /\ a # <<>> => Owner'[k] = Owner[h]
  /\ Content[k] # <<>> => Owner'[k] = Owner[k]
  /\ Elsewhere({h, k})
  /\ UNCHANGED <<to, acked, dropped>>

\* The front a of place h comes to its end.
End(h, a) ==
  /\ h \in Boxes /\ a \in Seq(Notes)
  /\ \E r \in Seq(Notes) : /\ Content[h] = a \o r /\ Content'[h] = r
                           /\ r # <<>> => Owner'[h] = Owner[h]
  /\ Elsewhere({h})
  /\ UNCHANGED to

\* The next k notifications, all for s, come into place h.
Come(h, s, k) ==
  /\ h \in Boxes /\ k \in 1..MaxBurst /\ Len(to) + k <= MaxNotes
  /\ Content[h] = <<>> /\ Content'[h] = Fresh(k) /\ Owner'[h] = s
  /\ to' = to \o [i \in 1..k |-> s]
  /\ Elsewhere({h})
  /\ UNCHANGED <<acked, dropped>>

\* A full batch: the head of the caller's list fills the queue, and the queue
\* goes to a courier.
Fill(p, q, s, e) ==
  /\ p \in Procs /\ q \in Procs \ {p} /\ s \in Subs /\ e \in Notes
  /\ \E r \in Seq(Notes) : /\ Content[HandOf(p)] = <<e>> \o r /\ Content'[HandOf(p)] = r
                           /\ r # <<>> => Owner'[HandOf(p)] = Owner[HandOf(p)]
  /\ Owner[HandOf(p)] = s /\ Content[HandOf(q)] = <<>>
  /\ Content'[QueueOf(s)] = <<>>
  /\ Content'[HandOf(q)] = Content[QueueOf(s)] \o <<e>> /\ Owner'[HandOf(q)] = s
  /\ Elsewhere({HandOf(p), QueueOf(s), HandOf(q)})
  /\ UNCHANGED <<to, acked, dropped>>

\* Nothing moves.
Still == Elsewhere({}) /\ UNCHANGED <<to, acked, dropped>>

\* No subscription ends, and no pause begins or ends.
Same == UNCHANGED paused /\ \A s \in Subs : Exists(s)' = Exists(s)

\* To see that everything else stays it is enough to look at the tables and
\* the goroutines.
TablesStay(X) ==
  \A s \in Subs : /\ QueueOf(s) \notin X => queue'[s] = queue[s]
                  /\ PendingOf(s) \notin X => pending'[s] = pending[s]
                  /\ QueuedOf(s) \notin X => queued'[s] = queued[s]

HandsStay(X) ==
  \A p \in Procs : HandOf(p) \notin X =>
    /\ proc'[p].batch \o proc'[p].todo = proc[p].batch \o proc[p].todo
    /\ proc[p].batch \o proc[p].todo # <<>> => proc'[p].sub = proc[p].sub

LEMMA ElsewhereIs ==
  ASSUME Boxed, Boxed', NEW X, TablesStay(X), HandsStay(X)
  PROVE  Elsewhere(X)
<1>. SUFFICES ASSUME NEW j \in Boxes \ X
              PROVE  Content'[j] = Content[j] /\ (Content[j] # <<>> => Owner'[j] = Owner[j])
  BY DEF Elsewhere
<1>1. ASSUME NEW s \in Subs, j \in {QueueOf(s), PendingOf(s), QueuedOf(s)}
      PROVE  Content'[j] = Content[j] /\ Owner'[j] = Owner[j]
  <2>1. CASE j = QueueOf(s)
    BY <2>1 DEF Boxed, TablesStay
  <2>2. CASE j = PendingOf(s)
    BY <2>2 DEF Boxed, TablesStay
  <2>3. CASE j = QueuedOf(s)
    BY <2>3 DEF Boxed, TablesStay
  <2>. QED  BY <1>1, <2>1, <2>2, <2>3
<1>2. ASSUME NEW p \in Procs, j = HandOf(p)
      PROVE  Content'[j] = Content[j] /\ (Content[j] # <<>> => Owner'[j] = Owner[j])
  <2>1. /\ Content[j] = proc[p].batch \o proc[p].todo /\ Owner[j] = proc[p].sub
        /\ Content'[j] = proc'[p].batch \o proc'[p].todo /\ Owner'[j] = proc'[p].sub
    BY <1>2 DEF Boxed
  <2>2. HandOf(p) \notin X
    BY <1>2
  <2>. QED  BY <2>1, <2>2 DEF HandsStay
<1>. QED  BY <1>1, <1>2, BoxesAre

\* What a step may take for granted.
Ground == /\ TypeOK /\ Hands /\ Boxed
          /\ TypeOK' /\ Hands' /\ Boxed'

\* One goroutine moves: to be g.
Turns(p, g) == proc' = [proc EXCEPT ![p] = g]

\* When one goroutine moves, the other hands stay as they are.
LEMMA HandAlone ==
  ASSUME Ground, NEW p \in Procs, NEW g, NEW X, HandOf(p) \in X, Turns(p, g), TablesStay(X)
  PROVE  /\ Elsewhere(X) /\ Content'[HandOf(p)] = g.batch \o g.todo
         /\ Owner'[HandOf(p)] = g.sub
<1>1. proc'[p] = g /\ \A q \in Procs : q # p => proc'[q] = proc[q]
  BY DEF Ground, TypeOK, Turns
<1>2. HandsStay(X)
  BY <1>1 DEF HandsStay
<1>3. Elsewhere(X)
  BY <1>2, ElsewhereIs DEF Ground
<1>4. /\ Content'[HandOf(p)] = proc'[p].batch \o proc'[p].todo
      /\ Owner'[HandOf(p)] = proc'[p].sub
  BY DEF Ground, Boxed
<1>. QED  BY <1>1, <1>3, <1>4

\* The five things that can happen to what a goroutine has in hand: it goes
\* on with it,
LEMMA HandStays ==
  ASSUME Ground, NEW p \in Procs, NEW g, Turns(p, g), TablesStay({}),
         g.batch \o g.todo = Content[HandOf(p)],
         Content[HandOf(p)] # <<>> => g.sub = proc[p].sub, UNCHANGED <<to, acked, dropped>>
  PROVE  Still
<1>1. proc'[p] = g /\ \A q \in Procs : q # p => proc'[q] = proc[q]
  BY DEF Ground, TypeOK, Turns
<1>2. Content[HandOf(p)] = proc[p].batch \o proc[p].todo
  BY DEF Ground, Boxed
<1>3. HandsStay({})
  BY <1>1, <1>2 DEF HandsStay
<1>. QED  BY <1>3, ElsewhereIs DEF Ground, Still

\* it puts the front of it in a table of its subscription,
LEMMA HandToTable ==
  ASSUME Ground, NEW p \in Procs, NEW s \in Subs, NEW g, Turns(p, g), proc[p].sub = s,
         NEW k \in {QueueOf(s), PendingOf(s), QueuedOf(s)}, TablesStay({HandOf(p), k}),
         NEW a \in Seq(Notes), NEW r \in Seq(Notes), Content[HandOf(p)] = a \o r,
         g.batch \o g.todo = r, r # <<>> => g.sub = s,
         Content'[k] = Content[k] \o a, UNCHANGED <<to, acked, dropped>>
  PROVE  Pass(HandOf(p), k, a)
<1>1. /\ Elsewhere({HandOf(p), k}) /\ Content'[HandOf(p)] = r
      /\ r # <<>> => Owner'[HandOf(p)] = s
  <2>1. HandOf(p) \in {HandOf(p), k}
    OBVIOUS
  <2>2. /\ Elsewhere({HandOf(p), k}) /\ Content'[HandOf(p)] = g.batch \o g.todo
        /\ Owner'[HandOf(p)] = g.sub
    BY <2>1, HandAlone
  <2>. QED  BY <2>2
<1>2. Owner[HandOf(p)] = s /\ Owner'[k] = s /\ Owner[k] = s
  <2>1. k = QueueOf(s) \/ k = PendingOf(s) \/ k = QueuedOf(s)
    OBVIOUS
  <2>2. /\ Owner[QueueOf(s)] = s /\ Owner[PendingOf(s)] = s /\ Owner[QueuedOf(s)] = s
        /\ Owner'[QueueOf(s)] = s /\ Owner'[PendingOf(s)] = s /\ Owner'[QueuedOf(s)] = s
        /\ Owner[HandOf(p)] = s
    BY DEF Ground, Boxed
  <2>. QED  BY <2>1, <2>2
<1>3. HandOf(p) \in Boxes /\ k \in Boxes \ {HandOf(p)}
  BY BoxesAre
<1>. QED  BY <1>1, <1>2, <1>3 DEF Pass

\* it takes all of a table,
LEMMA TableToHand ==
  ASSUME Ground, NEW p \in Procs, NEW s \in Subs, NEW g, Turns(p, g),
         NEW h \in {QueueOf(s), PendingOf(s), QueuedOf(s)}, TablesStay({h, HandOf(p)}),
         Content[HandOf(p)] = <<>>, Content'[h] = <<>>,
         g.batch \o g.todo = Content[h], Content[h] # <<>> => g.sub = s,
         UNCHANGED <<to, acked, dropped>>
  PROVE  Pass(h, HandOf(p), Content[h])
<1>1. /\ Elsewhere({h, HandOf(p)}) /\ Content'[HandOf(p)] = Content[h]
      /\ Content[h] # <<>> => Owner'[HandOf(p)] = s
  BY HandAlone
<1>2. Owner[h] = s /\ Owner'[h] = s
  BY DEF Ground, Boxed
<1>3. h \in Boxes /\ HandOf(p) \in Boxes \ {h}
  BY BoxesAre
<1>4. Content[h] \in Seq(Notes) /\ <<>> \in Seq(Notes)
  BY <1>3 DEF Ground, Boxed
<1>5. Content[h] = Content[h] \o <<>> /\ Content[h] = <<>> \o Content[h]
  BY <1>4, ConcatEmptySeq
<1>. QED  BY <1>1, <1>2, <1>3, <1>4, <1>5 DEF Pass

\* it is done with the front of it,
LEMMA HandEnds ==
  ASSUME Ground, NEW p \in Procs, NEW g, Turns(p, g), TablesStay({HandOf(p)}),
         NEW a \in Seq(Notes), NEW r \in Seq(Notes), Content[HandOf(p)] = a \o r,
         g.batch \o g.todo = r, r # <<>> => g.sub = proc[p].sub, UNCHANGED to
  PROVE  End(HandOf(p), a)
<1>1. /\ Elsewhere({HandOf(p)}) /\ Content'[HandOf(p)] = r
      /\ r # <<>> => Owner'[HandOf(p)] = proc[p].sub
  BY HandAlone
<1>2. Owner[HandOf(p)] = proc[p].sub /\ HandOf(p) \in Boxes
  BY BoxesAre DEF Ground, Boxed
<1>. QED  BY <1>1, <1>2 DEF End

\* or new notifications come into it.
LEMMA HandComes ==
  ASSUME Ground, NEW p \in Procs, NEW s \in Subs, NEW k \in 1..MaxBurst, NEW g, Turns(p, g),
         TablesStay({HandOf(p)}), Content[HandOf(p)] = <<>>,
         g.batch \o g.todo = Fresh(k), g.sub = s, Len(to) + k <= MaxNotes,
         to' = to \o [i \in 1..k |-> s], UNCHANGED <<acked, dropped>>
  PROVE  Come(HandOf(p), s, k)
<1>1. /\ Elsewhere({HandOf(p)}) /\ Content'[HandOf(p)] = Fresh(k)
      /\ Owner'[HandOf(p)] = s
  BY HandAlone
<1>. QED  BY <1>1, BoxesAre DEF Come

\* What a goroutine has in hand when one of its two lists is empty.
LEMMA InHandIs ==
  ASSUME TypeOK, Hands, Boxed, NEW p \in Procs
  PROVE  /\ Content[HandOf(p)] = proc[p].batch \o proc[p].todo
         /\ proc[p].batch = <<>> => Content[HandOf(p)] = proc[p].todo
         /\ proc[p].todo = <<>> => Content[HandOf(p)] = proc[p].batch
         /\ proc[p].pc \in {"park", "append"} =>
              /\ proc[p].todo # <<>> /\ proc[p].batch = <<>>
              /\ Head(proc[p].todo) \in Notes /\ Tail(proc[p].todo) \in Seq(Notes)
              /\ Content[HandOf(p)] = <<Head(proc[p].todo)>> \o Tail(proc[p].todo)
<1>1. Content[HandOf(p)] = proc[p].batch \o proc[p].todo
  BY DEF Boxed
<1>2. proc[p].batch \in Seq(Notes) /\ proc[p].todo \in Seq(Notes)
  BY Hand
<1>3. proc[p].batch = <<>> => Content[HandOf(p)] = proc[p].todo
  BY <1>1, <1>2, ConcatEmptySeq
<1>4. proc[p].todo = <<>> => Content[HandOf(p)] = proc[p].batch
  BY <1>1, <1>2, ConcatEmptySeq
<1>5. ASSUME proc[p].pc \in {"park", "append"}
      PROVE  /\ proc[p].todo # <<>> /\ proc[p].batch = <<>>
             /\ Head(proc[p].todo) \in Notes /\ Tail(proc[p].todo) \in Seq(Notes)
             /\ Content[HandOf(p)] = <<Head(proc[p].todo)>> \o Tail(proc[p].todo)
  <2>1. proc[p].todo # <<>> /\ proc[p].batch = <<>>
    BY <1>5, Hand DEF Wellformed
  <2>2. Head(proc[p].todo) \in Notes /\ Tail(proc[p].todo) \in Seq(Notes)
    BY <1>2, <2>1, RangeHeadTail
  <2>3. proc[p].todo = <<Head(proc[p].todo)>> \o Tail(proc[p].todo)
    BY <1>2, <2>1, HeadAndRest
  <2>. QED  BY <1>3, <2>1, <2>2, <2>3
<1>. QED  BY <1>1, <1>3, <1>4, <1>5

\* Which tables a step leaves alone, told from the tables themselves.
LEMMA NoTable ==
  ASSUME NEW X, UNCHANGED <<queue, pending, queued>>
  PROVE  TablesStay(X)
BY DEF TablesStay

LEMMA QueueAlone ==
  ASSUME TypeOK, NEW s \in Subs, NEW v, NEW h,
         queue' = [queue EXCEPT ![s] = v], UNCHANGED <<pending, queued>>
  PROVE  /\ TablesStay({QueueOf(s), h}) /\ TablesStay({h, QueueOf(s)})
         /\ queue'[s] = v
BY DEF TablesStay, TypeOK

LEMMA PendingAlone ==
  ASSUME TypeOK, NEW s \in Subs, NEW v, NEW h,
         pending' = [pending EXCEPT ![s] = v], UNCHANGED <<queue, queued>>
  PROVE  /\ TablesStay({PendingOf(s), h}) /\ TablesStay({h, PendingOf(s)})
         /\ pending'[s] = v
BY DEF TablesStay, TypeOK

LEMMA QueuedAlone ==
  ASSUME TypeOK, NEW s \in Subs, NEW v, NEW h,
         queued' = [queued EXCEPT ![s] = v], UNCHANGED <<queue, pending>>
  PROVE  /\ TablesStay({QueuedOf(s), h}) /\ TablesStay({h, QueuedOf(s)})
         /\ queued'[s] = v
BY DEF TablesStay, TypeOK

\* One more at the end.
LEMMA OneMore ==
  ASSUME NEW t \in Seq(Notes), NEW e \in Notes
  PROVE  /\ Append(t, e) = t \o <<e>> /\ Append(t, e) \in Seq(Notes)
         /\ <<e>> \in Seq(Notes)
BY AppendIsConcat, AppendProperties

\* Enqueue behind a pause.
LEMMA EnqueueParkMoves ==
  ASSUME Ground, NEW p \in Procs, EnqueuePark(p)
  PROVE  /\ Same
         /\ \/ Still
            \/ paused[proc[p].sub] /\ \E a \in Seq(Notes) : Pass(HandOf(p), QueuedOf(proc[p].sub), a)
<1>. DEFINE g == proc[p]  s == g.sub  e == Head(g.todo)
<1>1. /\ g.pc = "park" /\ s \in Subs /\ g \in Goroutine /\ queued[s] \in Seq(Notes)
      /\ UNCHANGED <<status, to, queue, pending, paused, acked, dropped>>
  BY Hand DEF Ground, EnqueuePark, outcome, TypeOK
<1>2. Same
  BY <1>1 DEF Same, Exists
<1>3. /\ e \in Notes /\ Tail(g.todo) \in Seq(Notes) /\ g.todo # <<>> /\ g.batch = <<>>
      /\ Content[HandOf(p)] = <<e>> \o Tail(g.todo)
  BY <1>1, InHandIs DEF Ground
<1>4. CASE paused[s]
  <2>1. /\ queued' = [queued EXCEPT ![s] = Append(queued[s], e)]
        /\ Turns(p, NextItem(g))
    BY <1>4 DEF EnqueuePark, Goto, Turns
  <2>2. /\ NextItem(g).batch = <<>> /\ NextItem(g).todo = Tail(g.todo)
        /\ Tail(g.todo) # <<>> => NextItem(g).sub = s
    BY <1>1, <1>3, NextItemWellformed
  <2>3. NextItem(g).batch \o NextItem(g).todo = Tail(g.todo)
    BY <1>3, <2>2, ConcatEmptySeq
  <2>4. PICK v : v = Append(queued[s], e) /\ v = queued[s] \o <<e>>
    BY <1>1, <1>3, OneMore
  <2>5. TablesStay({HandOf(p), QueuedOf(s)}) /\ queued'[s] = v /\ <<e>> \in Seq(Notes)
    <3>1. queued' = [queued EXCEPT ![s] = v]
      BY <2>1, <2>4
    <3>. QED  BY <1>1, <1>3, <3>1, QueuedAlone, OneMore DEF Ground
  <2>6. Content'[QueuedOf(s)] = Content[QueuedOf(s)] \o <<e>>
    BY <1>1, <2>4, <2>5 DEF Ground, Boxed
  <2>7. Pass(HandOf(p), QueuedOf(s), <<e>>)
    BY <1>1, <1>3, <2>1, <2>2, <2>3, <2>4, <2>5, <2>6, HandToTable
  <2>. QED  BY <1>2, <1>4, <2>5, <2>7
<1>5. CASE ~paused[s]
  <2>. DEFINE h == [g EXCEPT !.pc = "append", !.size = size[s]]
  <2>1. Turns(p, h) /\ queued' = queued
    BY <1>5 DEF EnqueuePark, Goto, Turns
  <2>2. h.batch = g.batch /\ h.todo = g.todo /\ h.sub = s
    BY <1>1 DEF Goroutine
  <2>. HIDE DEF h
  <2>3. Content[HandOf(p)] = g.batch \o g.todo
    BY DEF Ground, Boxed
  <2>4. TablesStay({})
    BY <1>1, <2>1, NoTable
  <2>5. Still
    BY <1>1, <2>1, <2>2, <2>3, <2>4, HandStays
  <2>. QED  BY <1>2, <2>5
<1>. QED  BY <1>4, <1>5

\* Enqueue: a batch that is still short.
LEMMA EnqueueWaitMoves ==
  ASSUME Ground, NEW p \in Procs, EnqueueWait(p)
  PROVE  Same /\ \E a \in Seq(Notes) : Pass(HandOf(p), QueueOf(proc[p].sub), a)
<1>. DEFINE g == proc[p]  s == g.sub  e == Head(g.todo)
<1>1. /\ g.pc = "append" /\ s \in Subs /\ g \in Goroutine /\ queue[s] \in Seq(Notes)
      /\ UNCHANGED <<status, to, pending, queued, paused, acked, dropped>>
      /\ queue' = [queue EXCEPT ![s] = Append(queue[s], e)]
      /\ Turns(p, NextItem(g))
  BY Hand DEF Ground, EnqueueWait, outcome, TypeOK, Goto, Turns
<1>2. /\ e \in Notes /\ Tail(g.todo) \in Seq(Notes) /\ g.todo # <<>> /\ g.batch = <<>>
      /\ Content[HandOf(p)] = <<e>> \o Tail(g.todo)
  BY <1>1, InHandIs DEF Ground
<1>3. /\ NextItem(g).batch = <<>> /\ NextItem(g).todo = Tail(g.todo)
      /\ Tail(g.todo) # <<>> => NextItem(g).sub = s
  BY <1>1, <1>2, NextItemWellformed
<1>4. NextItem(g).batch \o NextItem(g).todo = Tail(g.todo)
  BY <1>2, <1>3, ConcatEmptySeq
<1>5. PICK v : v = Append(queue[s], e) /\ v = queue[s] \o <<e>>
  BY <1>1, <1>2, OneMore
<1>6. TablesStay({HandOf(p), QueueOf(s)}) /\ queue'[s] = v /\ <<e>> \in Seq(Notes)
  <2>1. queue' = [queue EXCEPT ![s] = v]
    BY <1>1, <1>5
  <2>. QED  BY <1>1, <1>2, <2>1, QueueAlone, OneMore DEF Ground
<1>7. Content'[QueueOf(s)] = Content[QueueOf(s)] \o <<e>>
  BY <1>1, <1>5, <1>6 DEF Ground, Boxed
<1>8. Pass(HandOf(p), QueueOf(s), <<e>>)
  BY <1>1, <1>2, <1>3, <1>4, <1>5, <1>6, <1>7, HandToTable
<1>9. Same
  BY <1>1 DEF Same, Exists
<1>. QED  BY <1>6, <1>8, <1>9

\* Enqueue: a full batch leaves with a courier.
LEMMA EnqueueFullMoves ==
  ASSUME Ground, NEW p \in Procs, NEW q \in Procs \ {p}, EnqueueFull(p, q)
  PROVE  Same /\ \E s, e : Fill(p, q, s, e)
<1>. DEFINE g == proc[p]  s == g.sub  e == Head(g.todo)  full == Append(queue[s], e)
<1>1. /\ g.pc = "append" /\ proc[q].pc = "idle"
      /\ s \in Subs /\ g \in Goroutine /\ queue[s] \in Seq(Notes)
      /\ UNCHANGED <<status, to, pending, queued, paused, acked, dropped>>
      /\ queue' = [queue EXCEPT ![s] = <<>>]
      /\ proc' = [proc EXCEPT ![p] = NextItem(g), ![q] = Courier(s, full)]
  BY Hand DEF Ground, EnqueueFull, outcome, TypeOK
<1>2. /\ e \in Notes /\ Tail(g.todo) \in Seq(Notes) /\ g.todo # <<>> /\ g.batch = <<>>
      /\ Content[HandOf(p)] = <<e>> \o Tail(g.todo)
  BY <1>1, InHandIs DEF Ground
<1>3. /\ NextItem(g).batch = <<>> /\ NextItem(g).todo = Tail(g.todo)
      /\ Tail(g.todo) # <<>> => NextItem(g).sub = s
  BY <1>1, <1>2, NextItemWellformed
<1>4. NextItem(g).batch \o NextItem(g).todo = Tail(g.todo)
  BY <1>2, <1>3, ConcatEmptySeq
<1>5. full = queue[s] \o <<e>> /\ full \in Seq(Notes)
  BY <1>1, <1>2, OneMore
<1>. HIDE DEF full
<1>6. /\ Courier(s, full).batch = full /\ Courier(s, full).todo = <<>>
      /\ Courier(s, full).sub = s /\ full \o <<>> = full
  <2>1. full \o <<>> = full
    BY <1>5, ConcatEmptySeq
  <2>2. s \in Subs /\ full \in Seq(Notes)
    BY <1>1, <1>5
  <2>3. /\ Courier(s, full).batch = full /\ Courier(s, full).todo = <<>>
        /\ Courier(s, full).sub = s
    BY <2>2, CourierWellformed
  <2>. QED  BY <2>1, <2>3
<1>7. /\ proc'[p] = NextItem(g) /\ proc'[q] = Courier(s, full)
      /\ \A j \in Procs : j # p /\ j # q => proc'[j] = proc[j]
  BY <1>1 DEF Ground, TypeOK
<1>8. proc[q].batch = <<>> /\ proc[q].todo = <<>> /\ Content[HandOf(q)] = <<>>
  <2>1. proc[q].batch = <<>> /\ proc[q].todo = <<>>
    BY <1>1, Hand DEF Ground, Wellformed
  <2>. QED  BY <2>1, InHandIs DEF Ground
<1>9. Elsewhere({HandOf(p), QueueOf(s), HandOf(q)})
  <2>. DEFINE X == {HandOf(p), QueueOf(s), HandOf(q)}
  <2>1. TablesStay(X)
    BY <1>1 DEF TablesStay, Ground, TypeOK
  <2>2. HandsStay(X)
    BY <1>7 DEF HandsStay
  <2>. HIDE DEF X
  <2>3. Elsewhere(X)
    BY <2>1, <2>2, ElsewhereIs DEF Ground
  <2>. QED  BY <2>3 DEF X
<1>10. /\ Content'[HandOf(p)] = proc'[p].batch \o proc'[p].todo
       /\ Content'[HandOf(q)] = proc'[q].batch \o proc'[q].todo
       /\ Owner'[HandOf(p)] = proc'[p].sub /\ Owner[HandOf(p)] = s
       /\ Owner'[HandOf(q)] = proc'[q].sub
  BY DEF Ground, Boxed
<1>11. /\ Content'[HandOf(p)] = Tail(g.todo)
       /\ Tail(g.todo) # <<>> => Owner'[HandOf(p)] = s
       /\ Content'[HandOf(q)] = full /\ Owner'[HandOf(q)] = s
  <2>1. Content'[HandOf(p)] = Tail(g.todo)
    BY <1>4, <1>7, <1>10
  <2>2. Content'[HandOf(q)] = full
    BY <1>6, <1>7, <1>10
  <2>. QED  BY <1>3, <1>6, <1>7, <1>10, <2>1, <2>2
<1>12. Content'[QueueOf(s)] = <<>> /\ Content[QueueOf(s)] = queue[s]
  BY <1>1 DEF Ground, Boxed, TypeOK
<1>13. Fill(p, q, s, e)
  BY <1>1, <1>2, <1>5, <1>8, <1>9, <1>10, <1>11, <1>12 DEF Fill
<1>. QED  BY <1>1, <1>13 DEF Same, Exists

\* A flush takes the whole queue.
LEMMA FlushMoves ==
  ASSUME Ground, NEW p \in Procs, Flush(p)
  PROVE  Same /\ Pass(QueueOf(proc[p].sub), HandOf(p), Content[QueueOf(proc[p].sub)])
<1>. DEFINE g == proc[p]  s == g.sub
            n == IF queue[s] = <<>> THEN Idle ELSE [At("lookup", s) EXCEPT !.batch = queue[s]]
<1>1. /\ g.pc = "flush" /\ s \in Subs /\ queue[s] \in Seq(Notes)
      /\ UNCHANGED <<status, to, pending, queued, paused, acked, dropped>>
      /\ queue' = [queue EXCEPT ![s] = <<>>] /\ Turns(p, n)
  BY Hand DEF Ground, Flush, outcome, TypeOK, Goto, Turns
<1>2. g.batch = <<>> /\ g.todo = <<>>
  BY <1>1, Hand DEF Ground, Wellformed
<1>3. Content[HandOf(p)] = <<>>
  BY <1>2, InHandIs DEF Ground
<1>4. n.batch = queue[s] /\ n.todo = <<>> /\ (queue[s] # <<>> => n.sub = s)
  <2>1. CASE queue[s] = <<>>
    BY <2>1, IdleWellformed
  <2>2. CASE queue[s] # <<>>
    <3>1. "lookup" \in Points
      BY DEF Points
    <3>. QED  BY <1>1, <2>2, <3>1, AtFields DEF Goroutine
  <2>. QED  BY <2>1, <2>2
<1>. HIDE DEF n
<1>5. n.batch \o n.todo = queue[s]
  BY <1>1, <1>4, ConcatEmptySeq
<1>6. Content[QueueOf(s)] = queue[s] /\ Content'[QueueOf(s)] = queue'[s]
  BY <1>1 DEF Ground, Boxed
<1>7. TablesStay({QueueOf(s), HandOf(p)}) /\ queue'[s] = <<>>
  BY <1>1, QueueAlone DEF Ground
<1>8. Pass(QueueOf(s), HandOf(p), Content[QueueOf(s)])
  BY <1>1, <1>3, <1>4, <1>5, <1>6, <1>7, TableToHand
<1>. QED  BY <1>1, <1>8 DEF Same, Exists

\* Redelivery takes everything retained.
LEMMA RedeliverMoves ==
  ASSUME Ground, NEW p \in Procs, Redeliver(p)
  PROVE  Same /\ Pass(PendingOf(proc[p].sub), HandOf(p), Content[PendingOf(proc[p].sub)])
<1>. DEFINE g == proc[p]  s == g.sub
            n == IF pending[s] = <<>> THEN Idle ELSE Caller(s, pending[s], FALSE)
<1>1. /\ g.pc = "redeliver" /\ s \in Subs /\ pending[s] \in Seq(Notes)
      /\ UNCHANGED <<status, to, queue, queued, paused, acked, dropped>>
      /\ pending' = [pending EXCEPT ![s] = <<>>] /\ Turns(p, n)
  BY Hand DEF Ground, Redeliver, outcome, TypeOK, Goto, Turns
<1>2. g.batch = <<>> /\ g.todo = <<>>
  BY <1>1, Hand DEF Ground, Wellformed
<1>3. Content[HandOf(p)] = <<>>
  BY <1>2, InHandIs DEF Ground
<1>4. n.batch = <<>> /\ n.todo = pending[s] /\ (pending[s] # <<>> => n.sub = s)
  <2>1. CASE pending[s] = <<>>
    BY <2>1, IdleWellformed
  <2>2. CASE pending[s] # <<>>
    <3>1. PICK items \in Seq(Notes) : items = pending[s]
      BY <1>1
    <3>2. items # <<>> /\ s \in Subs /\ FALSE \in BOOLEAN
      BY <1>1, <2>2, <3>1
    <3>3. /\ Caller(s, items, FALSE).batch = <<>> /\ Caller(s, items, FALSE).sub = s
          /\ Caller(s, items, FALSE).todo = items
      BY <3>2, CallerWellformed
    <3>. QED  BY <2>2, <3>1, <3>3
  <2>. QED  BY <2>1, <2>2
<1>. HIDE DEF n
<1>5. n.batch \o n.todo = pending[s]
  BY <1>1, <1>4, ConcatEmptySeq
<1>6. Content[PendingOf(s)] = pending[s] /\ Content'[PendingOf(s)] = pending'[s]
  BY <1>1 DEF Ground, Boxed
<1>7. TablesStay({PendingOf(s), HandOf(p)}) /\ pending'[s] = <<>>
  BY <1>1, PendingAlone DEF Ground
<1>8. Pass(PendingOf(s), HandOf(p), Content[PendingOf(s)])
  BY <1>1, <1>3, <1>4, <1>5, <1>6, <1>7, TableToHand
<1>. QED  BY <1>1, <1>8 DEF Same, Exists

\* A goroutine that is done with its batch and goes on with the next.
LEMMA NextBatchMoves ==
  ASSUME Ground, NEW p \in Procs, Turns(p, NextBatch(proc[p])), TablesStay({HandOf(p)}),
         UNCHANGED to
  PROVE  End(HandOf(p), proc[p].batch)
<1>. DEFINE g == proc[p]
<1>1. g \in Goroutine /\ g.batch \in Seq(Notes) /\ g.todo \in Seq(Notes)
  BY Hand DEF Ground
<1>2. Content[HandOf(p)] = g.batch \o g.todo
  BY DEF Ground, Boxed
<1>3. /\ NextBatch(g).batch \o NextBatch(g).todo = g.todo
      /\ g.todo # <<>> => NextBatch(g).sub = g.sub
  BY <1>1, NextBatchJoins
<1>. QED  BY <1>1, <1>2, <1>3, HandEnds

\* A goroutine goes on with what it has in hand.
LEMMA GoesOn ==
  ASSUME Ground, NEW p \in Procs, NEW g, Turns(p, g), UNCHANGED <<queue, pending, queued>>,
         g.batch = proc[p].batch, g.todo = proc[p].todo, g.sub = proc[p].sub,
         UNCHANGED <<to, acked, dropped>>
  PROVE  Still
<1>1. Content[HandOf(p)] = proc[p].batch \o proc[p].todo
  BY DEF Ground, Boxed
<1>2. TablesStay({})
  BY NoTable
<1>. QED  BY <1>1, <1>2, HandStays

\* A goroutine with nothing in hand starts another life with nothing in hand.
LEMMA EmptyHanded ==
  ASSUME Ground, NEW p \in Procs, NEW g, Turns(p, g), UNCHANGED <<queue, pending, queued>>,
         g.batch = <<>>, g.todo = <<>>, Content[HandOf(p)] = <<>>,
         UNCHANGED <<to, acked, dropped>>
  PROVE  Still
<1>1. TablesStay({})
  BY NoTable
<1>2. g.batch \o g.todo = <<>>
  <2>1. <<>> \in Seq(Notes)
    OBVIOUS
  <2>2. <<>> \o <<>> = <<>>
    BY <2>1, ConcatEmptySeq
  <2>. QED  BY <2>2
<1>3. g.batch \o g.todo = Content[HandOf(p)]
  BY <1>2
<1>4. Content[HandOf(p)] # <<>> => g.sub = proc[p].sub
  OBVIOUS
<1>. QED  BY <1>1, <1>3, <1>4, HandStays

\* Somebody idle has nothing in hand.
LEMMA IdleHand ==
  ASSUME Ground, NEW p \in Procs, proc[p].pc \in {"idle", "flush", "redeliver"}
  PROVE  Content[HandOf(p)] = <<>>
<1>1. proc[p].batch = <<>> /\ proc[p].todo = <<>>
  BY Hand DEF Ground, Wellformed
<1>. QED  BY <1>1, InHandIs DEF Ground

\* The rest of flush: the batch goes on, or is dropped with its subscription.
LEMMA FlushLookupMoves ==
  ASSUME Ground, NEW p \in Procs, FlushLookup(p)
  PROVE  /\ Same /\ UNCHANGED acked
         /\ \/ Still
            \/ /\ ~Exists(proc[p].sub) /\ End(HandOf(p), proc[p].batch)
               /\ dropped' = dropped \cup Range(proc[p].batch)
<1>. DEFINE g == proc[p]
<1>1. /\ g.pc = "lookup" /\ g.sub \in Subs /\ g.batch \in Seq(Notes) /\ g.todo = <<>>
      /\ UNCHANGED <<status, to, queue, pending, queued, paused, acked>>
  BY Hand DEF Ground, Wellformed, FlushLookup, tables
<1>2. Same
  BY <1>1 DEF Same, Exists
<1>3. CASE Exists(g.sub)
  <2>. DEFINE h == Courier(g.sub, g.batch)
  <2>1. Turns(p, h) /\ UNCHANGED dropped
    BY <1>3 DEF FlushLookup, Goto, Turns
  <2>2. h.batch = g.batch /\ h.todo = g.todo /\ h.sub = g.sub
    BY <1>1, CourierWellformed
  <2>. HIDE DEF h
  <2>3. Still
    BY <1>1, <2>1, <2>2, GoesOn
  <2>. QED  BY <1>1, <1>2, <2>3
<1>4. CASE ~Exists(g.sub)
  <2>1. Goto(p, Idle) /\ dropped' = dropped \cup Range(g.batch)
    BY <1>4 DEF FlushLookup
  <2>2. Turns(p, NextBatch(g))
    BY <1>1, <2>1 DEF Goto, Turns, NextBatch
  <2>3. TablesStay({HandOf(p)})
    BY <1>1, NoTable
  <2>4. End(HandOf(p), g.batch)
    BY <1>1, <2>2, <2>3, NextBatchMoves
  <2>. QED  BY <1>1, <1>2, <1>4, <2>1, <2>4
<1>. QED  BY <1>3, <1>4

\* deliverSync: the batch is parked behind a pause, or sent.
LEMMA DeliverParkMoves ==
  ASSUME Ground, NEW p \in Procs, DeliverPark(p)
  PROVE  /\ Same
         /\ \/ Still
            \/ paused[proc[p].sub] /\ \E a \in Seq(Notes) : Pass(HandOf(p), QueuedOf(proc[p].sub), a)
<1>. DEFINE g == proc[p]  s == g.sub
<1>1. /\ g.pc = "deliver" /\ s \in Subs /\ g \in Goroutine /\ queued[s] \in Seq(Notes)
      /\ g.batch \in Seq(Notes) /\ g.todo \in Seq(Notes)
      /\ UNCHANGED <<status, to, queue, pending, paused, acked, dropped>>
  BY Hand DEF Ground, DeliverPark, outcome, TypeOK
<1>2. Same
  BY <1>1 DEF Same, Exists
<1>3. CASE paused[s]
  <2>1. queued' = [queued EXCEPT ![s] = queued[s] \o g.batch] /\ Turns(p, NextBatch(g))
    BY <1>3 DEF DeliverPark, Goto, Turns
  <2>2. /\ NextBatch(g).batch \o NextBatch(g).todo = g.todo
        /\ g.todo # <<>> => NextBatch(g).sub = s
    BY <1>1, NextBatchJoins
  <2>3. PICK v : v = queued[s] \o g.batch
    OBVIOUS
  <2>4. TablesStay({HandOf(p), QueuedOf(s)}) /\ queued'[s] = v
    <3>1. queued' = [queued EXCEPT ![s] = v]
      BY <2>1, <2>3
    <3>. QED  BY <1>1, <3>1, QueuedAlone DEF Ground
  <2>5. Content'[QueuedOf(s)] = Content[QueuedOf(s)] \o g.batch
    BY <1>1, <2>3, <2>4 DEF Ground, Boxed
  <2>6. Content[HandOf(p)] = g.batch \o g.todo
    BY DEF Ground, Boxed
  <2>7. Pass(HandOf(p), QueuedOf(s), g.batch)
    BY <1>1, <2>1, <2>2, <2>4, <2>5, <2>6, HandToTable
  <2>8. g.batch \in Seq(Notes)
    BY <1>1
  <2>. HIDE DEF g, s
  <2>9. \E a \in Seq(Notes) : Pass(HandOf(p), QueuedOf(s), a)
    BY <2>7, <2>8
  <2>. QED  BY <1>2, <1>3, <2>9 DEF g, s
<1>4. CASE ~paused[s]
  <2>. DEFINE h == [g EXCEPT !.pc = "send"]
  <2>1. Turns(p, h) /\ queued' = queued
    BY <1>4 DEF DeliverPark, Goto, Turns
  <2>2. h.batch = g.batch /\ h.todo = g.todo /\ h.sub = s
    BY <1>1 DEF Goroutine
  <2>. HIDE DEF h
  <2>3. Still
    BY <1>1, <2>1, <2>2, GoesOn
  <2>. QED  BY <1>2, <2>3
<1>. QED  BY <1>3, <1>4

\* A 2xx: the batch is acknowledged.
LEMMA SendOkMoves ==
  ASSUME Ground, NEW p \in Procs, SendOk(p)
  PROVE  /\ Same /\ End(HandOf(p), proc[p].batch)
         /\ acked' = acked \cup Range(proc[p].batch) /\ UNCHANGED dropped
<1>1. /\ UNCHANGED <<status, to, queue, pending, queued, paused, dropped>>
      /\ acked' = acked \cup Range(proc[p].batch) /\ Turns(p, NextBatch(proc[p]))
  BY DEF SendOk, Goto, Turns, tables
<1>2. TablesStay({HandOf(p)})
  BY <1>1, NoTable
<1>. QED  BY <1>1, <1>2, NextBatchMoves DEF Same, Exists

\* Anything else: the batch stays in hand, for the next retry or for retain.
LEMMA SendFailsMoves ==
  ASSUME Ground, NEW p \in Procs, SendFails(p)
  PROVE  Same /\ Still
<1>. DEFINE g == proc[p]
            h == IF g.retry < MaxRetries THEN [g EXCEPT !.pc = "wait", !.retry = g.retry + 1]
                 ELSE [g EXCEPT !.pc = "retain"]
<1>1. /\ UNCHANGED <<status, to, queue, pending, queued, paused, acked, dropped>>
      /\ Turns(p, h)
  BY DEF SendFails, Goto, Turns, tables, outcome
<1>2. g \in Goroutine
  BY Hand DEF Ground
<1>3. h.batch = g.batch /\ h.todo = g.todo /\ h.sub = g.sub
  BY <1>2 DEF Goroutine
<1>. HIDE DEF h
<1>4. Still
  BY <1>1, <1>3, GoesOn
<1>. QED  BY <1>1, <1>4 DEF Same, Exists

\* The sleep is over: another attempt, or the batch is dropped.
LEMMA WakeUpMoves ==
  ASSUME Ground, NEW p \in Procs, WakeUp(p)
  PROVE  /\ Same /\ UNCHANGED acked
         /\ \/ Still
            \/ /\ ~Exists(proc[p].sub) /\ End(HandOf(p), proc[p].batch)
               /\ dropped' = dropped \cup Range(proc[p].batch)
<1>. DEFINE g == proc[p]  h == [g EXCEPT !.pc = "send"]
<1>1. UNCHANGED <<status, to, queue, pending, queued, paused, acked>>
  BY DEF WakeUp, tables
<1>2. Same
  BY <1>1 DEF Same, Exists
<1>3. CASE Exists(g.sub)
  <2>1. Turns(p, h) /\ UNCHANGED dropped
    BY <1>3 DEF WakeUp, Goto, Turns
  <2>2. g \in Goroutine
    BY Hand DEF Ground
  <2>3. h.batch = g.batch /\ h.todo = g.todo /\ h.sub = g.sub
    BY <2>2 DEF Goroutine
  <2>. HIDE DEF h
  <2>4. Still
    BY <1>1, <2>1, <2>3, GoesOn
  <2>. QED  BY <1>1, <1>2, <2>4
<1>4. CASE ~Exists(g.sub)
  <2>1. Turns(p, NextBatch(g)) /\ dropped' = dropped \cup Range(g.batch)
    BY <1>4 DEF WakeUp, Goto, Turns
  <2>2. TablesStay({HandOf(p)})
    BY <1>1, NoTable
  <2>3. End(HandOf(p), g.batch)
    BY <1>1, <2>1, <2>2, NextBatchMoves
  <2>. QED  BY <1>1, <1>2, <1>4, <2>1, <2>3
<1>. QED  BY <1>3, <1>4

\* The schedule is exhausted: the batch is retained.
LEMMA RetainMoves ==
  ASSUME Ground, NEW p \in Procs, Retain(p)
  PROVE  Same /\ Pass(HandOf(p), PendingOf(proc[p].sub), proc[p].batch)
<1>. DEFINE g == proc[p]  s == g.sub  h == [g EXCEPT !.pc = "deactivate", !.batch = <<>>]
<1>1. /\ s \in Subs /\ g \in Goroutine /\ pending[s] \in Seq(Notes)
      /\ g.batch \in Seq(Notes) /\ g.todo \in Seq(Notes)
      /\ UNCHANGED <<status, to, queue, queued, paused, acked, dropped>>
      /\ pending' = [pending EXCEPT ![s] = pending[s] \o g.batch] /\ Turns(p, h)
  BY Hand DEF Ground, Retain, outcome, TypeOK, Goto, Turns
<1>2. h.batch = <<>> /\ h.todo = g.todo /\ h.sub = s
  BY <1>1, Retains
<1>. HIDE DEF h
<1>3. h.batch \o h.todo = g.todo
  BY <1>1, <1>2, ConcatEmptySeq
<1>4. PICK v : v = pending[s] \o g.batch
  OBVIOUS
<1>5. TablesStay({HandOf(p), PendingOf(s)}) /\ pending'[s] = v
  <2>1. pending' = [pending EXCEPT ![s] = v]
    BY <1>1, <1>4
  <2>. QED  BY <1>1, <2>1, PendingAlone DEF Ground
<1>6. Content'[PendingOf(s)] = Content[PendingOf(s)] \o g.batch
  BY <1>1, <1>4, <1>5 DEF Ground, Boxed
<1>7. Content[HandOf(p)] = g.batch \o g.todo
  BY DEF Ground, Boxed
<1>8. Pass(HandOf(p), PendingOf(s), g.batch)
  BY <1>1, <1>2, <1>3, <1>5, <1>6, <1>7, HandToTable
<1>. QED  BY <1>1, <1>8 DEF Same, Exists

\* The subscription goes down; the goroutine goes on with what it still has.
LEMMA DeactivateMoves ==
  ASSUME Ground, NEW p \in Procs, Deactivate(p)
  PROVE  Same /\ Still
<1>. DEFINE g == proc[p]  s == g.sub
<1>1. /\ g.pc = "deactivate" /\ g \in Goroutine /\ g.todo \in Seq(Notes) /\ g.batch = <<>>
      /\ UNCHANGED <<to, queue, pending, queued, paused, acked, dropped>>
      /\ Turns(p, NextBatch(g))
  BY Hand DEF Ground, Deactivate, outcome, tables, Goto, Turns, Wellformed
<1>2. Same
  BY <1>1 DEF Deactivate, Same, Exists, Ground, TypeOK
<1>3. /\ NextBatch(g).batch \o NextBatch(g).todo = g.todo
      /\ g.todo # <<>> => NextBatch(g).sub = g.sub
  BY <1>1, NextBatchJoins
<1>4. Content[HandOf(p)] = g.todo
  BY <1>1, InHandIs DEF Ground
<1>5. TablesStay({})
  BY <1>1, NoTable
<1>6. Still
  BY <1>1, <1>3, <1>4, <1>5, HandStays
<1>. QED  BY <1>2, <1>6

\* The timer fires, or the client activates: a goroutine starts empty-handed.
LEMMA StartMoves ==
  ASSUME Ground, NEW p \in Procs, NEW s \in Subs, TimerFires(p, s) \/ Activate(p, s)
  PROVE  Still /\ UNCHANGED paused /\ \A t \in Subs : Exists(t)' = Exists(t)
<1>1. PICK pc \in Points : Start(p, At(pc, s))
  BY DEF TimerFires, Activate, Points
<1>2. UNCHANGED <<to, queue, pending, queued, paused, acked, dropped>>
  BY DEF TimerFires, Activate, outcome, tables
<1>3. Turns(p, At(pc, s)) /\ Content[HandOf(p)] = <<>>
  BY <1>1, IdleHand DEF Start, Turns
<1>4. At(pc, s).batch = <<>> /\ At(pc, s).todo = <<>>
  BY AtFields
<1>5. Still
  BY <1>2, <1>3, <1>4, EmptyHanded
<1>6. \A t \in Subs : Exists(t)' = Exists(t)
  BY DEF TimerFires, Activate, Exists, Ground, TypeOK
<1>. QED  BY <1>2, <1>5, <1>6

\* What changes no table and no goroutine moves nothing.
LEMMA NobodyMoves ==
  ASSUME Ground, UNCHANGED <<to, queue, pending, queued, proc, acked, dropped>>
  PROVE  Still
<1>1. TablesStay({}) /\ HandsStay({})
  BY DEF TablesStay, HandsStay
<1>. QED  BY <1>1, ElsewhereIs DEF Ground, Still

\* New notifications come into their producer's hand.
LEMMA ProduceMoves ==
  ASSUME Ground, NEW p \in Procs, NEW s \in Subs, NEW k \in 1..MaxBurst, NEW fl \in BOOLEAN,
         Produce(p, s, k, fl)
  PROVE  Same /\ Come(HandOf(p), s, k)
<1>1. /\ UNCHANGED <<status, queue, pending, queued, paused, acked, dropped>>
      /\ Turns(p, Caller(s, Fresh(k), fl)) /\ Len(to) + k <= MaxNotes
      /\ to' = to \o [i \in 1..k |-> s] /\ proc[p].pc = "idle"
  BY DEF Produce, Start, Turns, tables, outcome
<1>2. Content[HandOf(p)] = <<>>
  BY <1>1, IdleHand
<1>3. Fresh(k) \in Seq(Notes) /\ Fresh(k) # <<>>
  <2>1. k \in Nat \ {0}
    BY DispatcherAssumption
  <2>. QED  BY <1>1, <2>1, FreshNotes DEF Ground
<1>4. /\ Caller(s, Fresh(k), fl).batch = <<>> /\ Caller(s, Fresh(k), fl).todo = Fresh(k)
      /\ Caller(s, Fresh(k), fl).sub = s
  BY <1>3, CallerWellformed
<1>5. Caller(s, Fresh(k), fl).batch \o Caller(s, Fresh(k), fl).todo = Fresh(k)
  <2>1. <<>> \o Fresh(k) = Fresh(k)
    BY <1>3, ConcatEmptySeq
  <2>. QED  BY <1>4, <2>1
<1>6. TablesStay({HandOf(p)})
  BY <1>1, NoTable
<1>7. Come(HandOf(p), s, k)
  BY <1>1, <1>2, <1>4, <1>5, <1>6, HandComes
<1>. QED  BY <1>1, <1>7 DEF Same, Exists

\* The pause is lifted: a goroutine takes all that was parked behind it.
LEMMA ResumeMoves ==
  ASSUME Ground, NEW p \in Procs, NEW s \in Subs, Resume(p, s)
  PROVE  /\ Pass(QueuedOf(s), HandOf(p), Content[QueuedOf(s)])
         /\ \A t \in Subs : Exists(t)' = Exists(t)
         /\ paused' = [paused EXCEPT ![s] = FALSE]
<1>. DEFINE n == IF queued[s] = <<>> THEN Idle ELSE Release(s, queued[s], size[s])
<1>1. /\ queued[s] \in Seq(Notes) /\ size[s] \in BatchSizes
      /\ UNCHANGED <<status, to, queue, pending, acked, dropped>>
      /\ queued' = [queued EXCEPT ![s] = <<>>] /\ Turns(p, n) /\ proc[p].pc = "idle"
      /\ paused' = [paused EXCEPT ![s] = FALSE]
  BY DEF Ground, Resume, outcome, TypeOK, Start, Turns
<1>2. Content[HandOf(p)] = <<>>
  BY <1>1, IdleHand
<1>3. n.batch \o n.todo = queued[s] /\ (queued[s] # <<>> => n.sub = s)
  <2>1. CASE queued[s] = <<>>
    <3>1. n.batch = <<>> /\ n.todo = <<>>
      BY <2>1, IdleWellformed
    <3>2. queued[s] \o queued[s] = queued[s]
      BY <1>1, <2>1, ConcatEmptySeq
    <3>. QED  BY <2>1, <3>1, <3>2
  <2>2. CASE queued[s] # <<>>
    <3>1. n = Release(s, queued[s], size[s])
      BY <2>2
    <3>2. Release(s, queued[s], size[s]).batch \o Release(s, queued[s], size[s]).todo = queued[s]
      BY <1>1, ReleaseJoins
    <3>3. Release(s, queued[s], size[s]).sub = s
      BY <1>1, ReleaseWellformed
    <3>. HIDE DEF n
    <3>. QED  BY <3>1, <3>2, <3>3
  <2>. QED  BY <2>1, <2>2
<1>. HIDE DEF n
<1>4. Content[QueuedOf(s)] = queued[s] /\ Content'[QueuedOf(s)] = queued'[s]
  BY DEF Ground, Boxed
<1>5. TablesStay({QueuedOf(s), HandOf(p)}) /\ queued'[s] = <<>>
  BY <1>1, QueuedAlone DEF Ground
<1>6. Pass(QueuedOf(s), HandOf(p), Content[QueuedOf(s)])
  BY <1>1, <1>2, <1>3, <1>4, <1>5, TableToHand
<1>. QED  BY <1>1, <1>6 DEF Exists

-----------------------------------------------------------------------------
(***************************************************************************)
(* Every step, as what it does to the places                               *)
(***************************************************************************)

\* A subscription's notifications set out: a burst comes into a hand.
Comes == Same /\ \E p \in Procs, s \in Subs, k \in 1..MaxBurst :
                   Exists(s) /\ Come(HandOf(p), s, k)

\* A hand passes what it holds into the queue, or behind a pause, or back
\* among what is retained; a hand takes a whole queue, or all that is retained.
Queues == Same /\ \E p \in Procs, s \in Subs, a \in Seq(Notes) : Pass(HandOf(p), QueueOf(s), a)
Parks == Same /\ \E p \in Procs, s \in Subs, a \in Seq(Notes) : paused[s] /\ Pass(HandOf(p), QueuedOf(s), a)
Keeps == Same /\ \E p \in Procs, s \in Subs, a \in Seq(Notes) : Pass(HandOf(p), PendingOf(s), a)
Flushes == Same /\ \E p \in Procs, s \in Subs : Pass(QueueOf(s), HandOf(p), Content[QueueOf(s)])
Fills == Same /\ \E p, q \in Procs, s \in Subs, e \in Notes : Fill(p, q, s, e)
Returns == Same /\ \E p \in Procs, s \in Subs :
                     Pass(PendingOf(s), HandOf(p), Content[PendingOf(s)])

\* A batch ends acknowledged, or dropped because its subscription is gone.
Acks == Same /\ \E p \in Procs, a \in Seq(Notes) :
                  End(HandOf(p), a) /\ acked' = acked \cup Range(a) /\ UNCHANGED dropped
Drops == Same /\ \E p \in Procs, a \in Seq(Notes) :
                   /\ ~Exists(Owner[HandOf(p)]) /\ End(HandOf(p), a)
                   /\ dropped' = dropped \cup Range(a) /\ UNCHANGED acked

\* A subscription ends, a pause begins, a pause ends and releases its queue.
Ends == Still /\ UNCHANGED paused /\ \E s \in Subs : status' = [status EXCEPT ![s] = "deleted"]
Holds == Still /\ UNCHANGED status /\ \E s \in Subs : paused' = [paused EXCEPT ![s] = TRUE]
Releases == UNCHANGED status /\ \E p \in Procs, s \in Subs :
              /\ Pass(QueuedOf(s), HandOf(p), Content[QueuedOf(s)])
              /\ paused' = [paused EXCEPT ![s] = FALSE]

Traffic ==
  \/ Comes \/ Queues \/ Parks \/ Keeps \/ Flushes \/ Fills \/ Returns \/ Acks \/ Drops
  \/ Ends \/ Holds \/ Releases \/ (Same /\ Still)

\* There are no other steps.
LEMMA StepsAreTraffic ==
  ASSUME Ground, [Next]_vars
  PROVE  Traffic
<1>1. CASE UNCHANGED vars
  <2>1. UNCHANGED <<status, paused, to, queue, pending, queued, proc, acked, dropped>>
    BY <1>1 DEF vars
  <2>. QED  BY <2>1, NobodyMoves DEF Traffic, Same, Exists
<1>2. ASSUME NEW p \in Procs, Run(p) PROVE Traffic
  <2>. DEFINE s == proc[p].sub
  <2>0. s \in Subs /\ Owner[HandOf(p)] = s
    BY Hand DEF Ground, Boxed
  <2>1. ASSUME EnqueuePark(p) PROVE Traffic
    <3>1. Same /\ (Still \/ (paused[s] /\ \E a \in Seq(Notes) : Pass(HandOf(p), QueuedOf(s), a)))
      BY <2>1, EnqueueParkMoves
    <3>. HIDE DEF s
    <3>. QED  BY <2>0, <3>1 DEF Traffic, Parks
  <2>2. EnqueueWait(p) => Traffic
    BY <2>0, EnqueueWaitMoves DEF Traffic, Queues
  <2>3. ASSUME NEW q \in Procs \ {p}, EnqueueFull(p, q) PROVE Traffic
    <3>1. Same /\ \E t, e : Fill(p, q, t, e)
      BY <2>3, EnqueueFullMoves
    <3>2. PICK t, e : Fill(p, q, t, e)
      BY <3>1
    <3>3. t \in Subs /\ e \in Notes
      BY <3>2 DEF Fill
    <3>. QED  BY <3>1, <3>2, <3>3 DEF Traffic, Fills
  <2>4. Flush(p) => Traffic
    BY <2>0, FlushMoves DEF Traffic, Flushes
  <2>5. FlushLookup(p) => Traffic
    BY <2>0, FlushLookupMoves DEF Traffic, Drops, End
  <2>6. DeliverPark(p) => Traffic
    BY <2>0, DeliverParkMoves DEF Traffic, Parks
  <2>7. SendOk(p) => Traffic
    BY SendOkMoves DEF Traffic, Acks, End
  <2>8. SendFails(p) => Traffic
    BY SendFailsMoves DEF Traffic
  <2>9. WakeUp(p) => Traffic
    BY <2>0, WakeUpMoves DEF Traffic, Drops, End
  <2>10. Retain(p) => Traffic
    BY <2>0, RetainMoves DEF Traffic, Keeps, Pass
  <2>11. Deactivate(p) => Traffic
    BY DeactivateMoves DEF Traffic
  <2>12. Redeliver(p) => Traffic
    BY <2>0, RedeliverMoves DEF Traffic, Returns
  <2>. QED  BY <1>2, <2>1, <2>2, <2>3, <2>4, <2>5, <2>6, <2>7, <2>8, <2>9, <2>10, <2>11, <2>12
            DEF Run
<1>3. ASSUME NEW p \in Procs, NEW s \in Subs, TimerFires(p, s) \/ Activate(p, s)
      PROVE  Traffic
  BY <1>3, StartMoves DEF Traffic, Same
<1>4. ASSUME NEW p \in Procs, NEW s \in Subs, NEW k \in 1..MaxBurst, NEW fl \in BOOLEAN,
             Exists(s), Produce(p, s, k, fl)
      PROVE  Traffic
  BY <1>4, ProduceMoves DEF Traffic, Comes
<1>5. ASSUME NEW p \in Procs, NEW s \in Subs,
             Notify(p, s) \/ ClientTest(p, s)
             \/ \E k \in 1..MaxBurst, fl \in BOOLEAN : SimNotifications(p, s, k, fl)
      PROVE  Traffic
  <2>1. 1 \in 1..MaxBurst
    BY DispatcherAssumption
  <2>2. Notify(p, s) => Traffic
    <3>1. Notify(p, s) => Exists(s) /\ Produce(p, s, 1, FALSE)
      BY DEF Notify, Exists
    <3>. QED  BY <1>4, <2>1, <3>1
  <2>3. ClientTest(p, s) => Traffic
    BY <1>4, <2>1 DEF ClientTest
  <2>4. ASSUME NEW k \in 1..MaxBurst, NEW fl \in BOOLEAN, SimNotifications(p, s, k, fl)
        PROVE  Traffic
    BY <1>4, <2>4 DEF SimNotifications
  <2>. QED  BY <1>5, <2>2, <2>3, <2>4
<1>6. ASSUME NEW s \in Subs, ClientDeactivates(s) \/ \E k \in BatchSizes : UpdateSize(s, k)
      PROVE  Traffic
  <2>1. UNCHANGED <<paused, to, queue, pending, queued, proc, acked, dropped>>
    BY <1>6 DEF ClientDeactivates, UpdateSize, tables, outcome
  <2>2. \A t \in Subs : Exists(t)' = Exists(t)
    BY <1>6 DEF ClientDeactivates, UpdateSize, Exists, Ground, TypeOK
  <2>. QED  BY <2>1, <2>2, NobodyMoves DEF Traffic, Same
<1>7. ASSUME NEW s \in Subs, Delete(s) PROVE Traffic
  <2>1. UNCHANGED <<paused, to, queue, pending, queued, proc, acked, dropped>>
        /\ status' = [status EXCEPT ![s] = "deleted"]
    BY <1>7 DEF Delete, tables, outcome
  <2>. QED  BY <2>1, NobodyMoves DEF Traffic, Ends
<1>8. ASSUME NEW s \in Subs, Pause(s) PROVE Traffic
  <2>1. UNCHANGED <<status, to, queue, pending, queued, proc, acked, dropped>>
        /\ paused' = [paused EXCEPT ![s] = TRUE]
    BY <1>8 DEF Pause, outcome
  <2>. QED  BY <2>1, NobodyMoves DEF Traffic, Holds
<1>9. ASSUME NEW p \in Procs, NEW s \in Subs, Resume(p, s) PROVE Traffic
  <2>1. UNCHANGED status
    BY <1>9 DEF Resume
  <2>. QED  BY <1>9, <2>1, ResumeMoves DEF Traffic, Releases
<1>10. ASSUME NEW p \in Procs, NEW s \in Subs, Environment(p, s) PROVE Traffic
  BY <1>3, <1>5, <1>6, <1>7, <1>8, <1>9, <1>10 DEF Environment
<1>. QED  BY <1>1, <1>2, <1>3, <1>10 DEF Next

-----------------------------------------------------------------------------
(***************************************************************************)
(* No notification is in two places                                        *)
(***************************************************************************)

Live == (1..Len(to)) \ (acked \cup dropped)

\* What is still about is in one place, once; what has ended, has ended one way.
Single == /\ Apart(Content, Live)
          /\ acked \cap dropped = {}
          /\ acked \cup dropped \subseteq 1..Len(to)

\* The places are the same before and after, whatever is in them.
LEMMA ContentIs ==
  ASSUME Ground
  PROVE  Content \in [Boxes -> Seq(Notes)] /\ Content' \in [Boxes -> Seq(Notes)]
BY DEF Ground, Boxed, Boxes

\* Passing on makes no second copy.
LEMMA PassSingle ==
  ASSUME Ground, Single, NEW h, NEW k, NEW a, Pass(h, k, a)
  PROVE  Single'
<1>1. PICK r \in Seq(Notes) : Content[h] = a \o r /\ Content'[h] = r
  BY DEF Pass
<1>2. /\ h \in Boxes /\ k \in Boxes \ {h} /\ a \in Seq(Notes)
      /\ Content'[k] = Content[k] \o a /\ \A j \in Boxes \ {h, k} : Content'[j] = Content[j]
      /\ UNCHANGED <<to, acked, dropped>>
  BY DEF Pass, Elsewhere
<1>3. Apart(Content, Live)
  BY DEF Single
<1>4. Content \in [Boxes -> Seq(Notes)] /\ Content' \in [Boxes -> Seq(Notes)]
  BY ContentIs
<1>5. Apart(Content', Live)
  <2>1. Passing(Notes, Boxes, Content, Content', h, k, a)
    BY <1>1, <1>2, <1>4 DEF Passing, Families
  <2>. QED  BY <1>3, <2>1, Passes
<1>6. Live' = Live
  BY <1>2 DEF Live
<1>7. Apart(Content, Live)'
  BY <1>5, <1>6
<1>. QED  BY <1>2, <1>7 DEF Single

\* Neither does filling the queue and passing it on at once.
LEMMA FillSingle ==
  ASSUME Ground, Single, NEW p \in Procs, NEW q \in Procs, NEW s \in Subs, NEW e \in Notes,
         Fill(p, q, s, e)
  PROVE  Single'
<1>. DEFINE h == HandOf(p)  k == QueueOf(s)  l == HandOf(q)
<1>1. PICK r \in Seq(Notes) : Content[h] = <<e>> \o r /\ Content'[h] = r
  BY DEF Fill
<1>2. PICK a \in Seq(Notes) : a = <<e>>
  <2>1. <<>> \in Seq(Notes)
    OBVIOUS
  <2>2. <<e>> \in Seq(Notes)
    BY <2>1, OneMore
  <2>. QED  BY <2>2
<1>3. PICK v : v = Content[k] \o a
  OBVIOUS
<1>4. /\ Content[l] = <<>> /\ Content'[k] = <<>> /\ Content'[l] = v
      /\ \A j \in Boxes \ {h, k, l} : Content'[j] = Content[j]
      /\ UNCHANGED <<to, acked, dropped>> /\ q # p
  BY <1>2, <1>3 DEF Fill, Elsewhere
<1>5. h \in Boxes /\ k \in Boxes \ {h} /\ l \in Boxes \ {h, k}
  BY <1>4, BoxesAre
<1>6. Content \in [Boxes -> Seq(Notes)] /\ Content' \in [Boxes -> Seq(Notes)]
  BY ContentIs
<1>7. v \in Seq(Notes)
  BY <1>3, <1>5, <1>6, ConcatProperties
<1>. DEFINE M == [Content EXCEPT ![h] = r, ![k] = v]
<1>8. /\ M \in [Boxes -> Seq(Notes)] /\ M[h] = r /\ M[k] = v
      /\ \A j \in Boxes \ {h, k} : M[j] = Content[j]
  BY <1>5, <1>6, <1>7
<1>9. \A j \in Boxes \ {k, l} : Content'[j] = M[j]
  BY <1>1, <1>4, <1>8
<1>10. M[l] = <<>> /\ Content'[l] = M[l] \o v /\ M[k] = v \o <<>> /\ <<>> \in Seq(Notes)
  <2>1. <<>> \o v = v /\ v \o <<>> = v
    BY <1>7, ConcatEmptySeq
  <2>2. M[l] = <<>>
    BY <1>4, <1>5, <1>8
  <2>. HIDE DEF M
  <2>. QED  BY <1>4, <1>8, <2>1, <2>2
<1>. HIDE DEF M, h, k, l
<1>11. Apart(Content, Live)
  BY DEF Single
<1>12. M[k] = Content[k] \o a /\ Content[h] = a \o r
  BY <1>1, <1>2, <1>3, <1>8
<1>13. Apart(M, Live)
  <2>1. Passing(Notes, Boxes, Content, M, h, k, a)
    BY <1>5, <1>6, <1>8, <1>12 DEF Passing, Families
  <2>. QED  BY <1>11, <2>1, Passes
<1>14. k \in Boxes /\ l \in Boxes \ {k}
  BY <1>5
<1>15. Apart(Content', Live)
  <2>1. Passing(Notes, Boxes, M, Content', k, l, v)
    BY <1>4, <1>6, <1>7, <1>8, <1>9, <1>10, <1>14 DEF Passing, Families
  <2>. QED  BY <1>13, <2>1, Passes
<1>16. Live' = Live
  BY <1>4 DEF Live
<1>17. Apart(Content, Live)'
  BY <1>15, <1>16
<1>. QED  BY <1>4, <1>17 DEF Single

\* What ends is no longer anywhere.
LEMMA EndSingle ==
  ASSUME Ground, Single, NEW h, NEW a, End(h, a),
         \/ acked' = acked \cup Range(a) /\ UNCHANGED dropped
         \/ dropped' = dropped \cup Range(a) /\ UNCHANGED acked
  PROVE  Single'
<1>1. PICK r \in Seq(Notes) : Content[h] = a \o r /\ Content'[h] = r
  BY DEF End
<1>2. /\ h \in Boxes /\ a \in Seq(Notes) /\ UNCHANGED to
      /\ \A j \in Boxes \ {h} : Content'[j] = Content[j]
  BY DEF End, Elsewhere
<1>3. Apart(Content, Live)
  BY DEF Single
<1>4. Content \in [Boxes -> Seq(Notes)] /\ Content' \in [Boxes -> Seq(Notes)]
  BY ContentIs
<1>5. Apart(Content', Live \ Range(a)) /\ Range(a) \subseteq Live
  <2>1. Leaving(Notes, Boxes, Content, Content', h, a)
    BY <1>1, <1>2, <1>4 DEF Leaving, Families
  <2>. QED  BY <1>3, <2>1, Leaves
<1>6. Live' = Live \ Range(a)
  BY <1>2 DEF Live
<1>7. Apart(Content, Live)'
  BY <1>5, <1>6
<1>8. Range(a) \subseteq 1..Len(to) /\ Range(a) \cap (acked \cup dropped) = {}
  BY <1>5 DEF Live
<1>. QED  BY <1>2, <1>7, <1>8 DEF Single

\* A burst is new.
LEMMA ComeSingle ==
  ASSUME Ground, Single, NEW h, NEW s \in Subs, NEW k, Come(h, s, k)
  PROVE  Single'
<1>1. /\ h \in Boxes /\ k \in Nat \ {0} /\ Len(to) + k <= MaxNotes
      /\ to' = to \o [i \in 1..k |-> s] /\ UNCHANGED <<acked, dropped>>
      /\ Content[h] = <<>> /\ Content'[h] = Fresh(k)
      /\ \A j \in Boxes \ {h} : Content'[j] = Content[j]
  BY DispatcherAssumption DEF Come, Elsewhere
<1>2. PICK a : a = Fresh(k)
  OBVIOUS
<1>3. a \in Seq(Notes) /\ Range(a) = (Len(to) + 1)..(Len(to) + k)
  BY <1>1, <1>2, FreshNotes DEF Ground
<1>4. IsInjective(a)
  <2>1. Len(to) \in Nat
    BY LenProperties DEF Ground, TypeOK
  <2>2. DOMAIN a = 1..k /\ \A i \in 1..k : a[i] = Len(to) + i
    BY <1>2 DEF Fresh
  <2>3. \A i, j \in 1..k : Len(to) + i = Len(to) + j => i = j
    BY <1>1, <2>1
  <2>. QED  BY <2>2, <2>3 DEF IsInjective
<1>5. Len(to') = Len(to) + k /\ Len(to) \in Nat
  <2>1. Len(to) \in Nat
    BY LenProperties DEF Ground, TypeOK
  <2>. QED  BY <1>1, <2>1, ToGrows DEF Ground
<1>6. Range(a) \cap Live = {} /\ Live' = Live \cup Range(a)
  <2>1. Range(a) \cap (1..Len(to)) = {} /\ 1..Len(to') = (1..Len(to)) \cup Range(a)
    BY <1>1, <1>3, <1>5
  <2>2. acked \cup dropped \subseteq 1..Len(to)
    BY DEF Single
  <2>. QED  BY <1>1, <2>1, <2>2 DEF Live
<1>7. Apart(Content, Live)
  BY DEF Single
<1>8. Content \in [Boxes -> Seq(Notes)] /\ Content' \in [Boxes -> Seq(Notes)]
  BY ContentIs
<1>9. Content'[h] = Content[h] \o a
  <2>1. <<>> \o a = a
    BY <1>3, ConcatEmptySeq
  <2>. QED  BY <1>1, <1>2, <2>1
<1>10. Apart(Content', Live \cup Range(a))
  <2>1. Entering(Notes, Boxes, Content, Content', h, a)
    BY <1>1, <1>3, <1>8, <1>9 DEF Entering, Families
  <2>. QED  BY <1>4, <1>6, <1>7, <2>1, Enters
<1>11. Apart(Content, Live)'
  BY <1>6, <1>10
<1>12. (acked \cup dropped)' \subseteq 1..Len(to)'
  BY <1>1, <1>5 DEF Single
<1>. QED  BY <1>1, <1>11, <1>12 DEF Single

\* Nothing moves, nothing changes.
LEMMA StillSingle ==
  ASSUME Ground, Single, Still
  PROVE  Single'
<1>1. UNCHANGED <<to, acked, dropped>> /\ \A j \in Boxes : Content'[j] = Content[j]
  BY DEF Still, Elsewhere
<1>2. Content' = Content
  BY <1>1, ContentIs
<1>. QED  BY <1>1, <1>2 DEF Single, Live

\* No step puts a notification in two places.
LEMMA SingleStep ==
  ASSUME Ground, Single, [Next]_vars
  PROVE  Single'
<1>1. Traffic
  BY StepsAreTraffic
<1>2. Queues \/ Parks \/ Keeps \/ Flushes \/ Returns \/ Releases => Single'
  BY PassSingle DEF Queues, Parks, Keeps, Flushes, Returns, Releases
<1>3. Fills => Single'
  BY FillSingle DEF Fills
<1>4. Acks \/ Drops => Single'
  BY EndSingle DEF Acks, Drops
<1>5. Comes => Single'
  BY ComeSingle DEF Comes
<1>6. Ends \/ Holds \/ (Same /\ Still) => Single'
  BY StillSingle DEF Ends, Holds
<1>. QED  BY <1>1, <1>2, <1>3, <1>4, <1>5, <1>6 DEF Traffic

\* At first there are none.
LEMMA SingleInit == Init => Single
<1>. SUFFICES ASSUME Init PROVE Single
  OBVIOUS
<1>1. to = <<>> /\ acked = {} /\ dropped = {}
  BY DEF Init
<1>2. TypeOK /\ Boxed
  BY TypeInit, TypedBoxed
<1>3. ASSUME NEW h \in Boxes PROVE Content[h] = <<>>
  <2>1. CASE \E s \in Subs : h \in {QueueOf(s), PendingOf(s), QueuedOf(s)}
    BY <1>2, <2>1 DEF Boxed, Init
  <2>2. CASE \E p \in Procs : h = HandOf(p)
    <3>1. PICK p \in Procs : h = HandOf(p)
      BY <2>2
    <3>2. proc[p].batch = <<>> /\ proc[p].todo = <<>>
      BY IdleWellformed DEF Init
    <3>3. <<>> \in Seq(Notes)
      OBVIOUS
    <3>4. <<>> \o <<>> = <<>>
      BY <3>3, ConcatEmptySeq
    <3>. QED  BY <1>2, <3>1, <3>2, <3>4 DEF Boxed
  <2>. QED  BY <2>1, <2>2, BoxesAre
<1>4. DOMAIN Content = Boxes
  BY DEF Content
<1>5. Apart(Content, Live)
  BY <1>3, <1>4 DEF Apart, IsInjective, Range
<1>. QED  BY <1>1, <1>5 DEF Single

\* The places of NoTwin tell a goroutine's batch from what it has still to do.
BoxOf(h) == IF h.kind \in {"batch", "todo"} THEN HandOf(h.at) ELSE h

\* A batch or a todo list is part of what its goroutine has in hand.
LEMMA HeldIn ==
  ASSUME TypeOK, Single, NEW h \in Holder
  PROVE  /\ BoxOf(h) \in Boxes /\ Range(Held(h)) \subseteq Range(Content[BoxOf(h)])
         /\ IsInjective(Held(h))
<1>0. Boxed
  BY TypedBoxed
<1>1. DOMAIN Content = Boxes /\ \A b \in Boxes : IsInjective(Content[b])
  BY DEF Content, Single, Apart
<1>2. CASE h \in [kind: {"queue", "pending", "queued"}, at: Subs]
  <2>1. h \in Boxes /\ BoxOf(h) = h
    BY <1>2 DEF Boxes, BoxOf
  <2>2. Held(h) = Content[h]
    BY <1>2, <2>1 DEF Held, Content
  <2>. QED  BY <1>1, <2>1, <2>2
<1>3. CASE h \in [kind: {"batch", "todo"}, at: Procs]
  <2>1. PICK p \in Procs : h.at = p /\ BoxOf(h) = HandOf(p)
    BY <1>3 DEF BoxOf
  <2>2. HandOf(p) \in Boxes /\ Content[HandOf(p)] = proc[p].batch \o proc[p].todo
    BY <1>0, BoxesAre DEF Boxed
  <2>3. proc[p].batch \in Seq(Notes) /\ proc[p].todo \in Seq(Notes)
    BY DEF TypeOK, Goroutine
  <2>4. IsInjective(proc[p].batch) /\ IsInjective(proc[p].todo)
    <3>1. IsInjective(proc[p].batch \o proc[p].todo)
      BY <1>1, <2>2
    <3>. QED  BY <2>3, <3>1, JoinDistinct
  <2>5. Range(Content[HandOf(p)]) = Range(proc[p].batch) \cup Range(proc[p].todo)
    BY <2>2, <2>3, RangeJoin
  <2>6. Held(h) = proc[p].batch \/ Held(h) = proc[p].todo
    BY <1>3, <2>1 DEF Held
  <2>. QED  BY <2>1, <2>2, <2>4, <2>5, <2>6
<1>. QED  BY <1>2, <1>3 DEF Holder

\* What sits in one sequence sits in no other.
LEMMA HeldApart ==
  ASSUME TypeOK, Single, NEW h \in Holder, NEW k \in Holder, h # k
  PROVE  Range(Held(h)) \cap Range(Held(k)) = {}
<1>1. CASE BoxOf(h) # BoxOf(k)
  <2>1. DOMAIN Content = Boxes
    BY DEF Content
  <2>2. /\ BoxOf(h) \in Boxes /\ Range(Held(h)) \subseteq Range(Content[BoxOf(h)])
        /\ BoxOf(k) \in Boxes /\ Range(Held(k)) \subseteq Range(Content[BoxOf(k)])
    BY HeldIn
  <2>3. Range(Content[BoxOf(h)]) \cap Range(Content[BoxOf(k)]) = {}
    BY <1>1, <2>1, <2>2 DEF Single, Apart
  <2>. QED  BY <2>2, <2>3
<1>2. CASE BoxOf(h) = BoxOf(k)
  <2>1. ASSUME NEW x \in Holder
        PROVE  \/ x \in [kind: {"batch", "todo"}, at: Procs] /\ BoxOf(x) = HandOf(x.at)
               \/ x.kind \in {"queue", "pending", "queued"} /\ BoxOf(x) = x
    BY DEF Holder, BoxOf
  <2>2. \A x : HandOf(x).kind = "hand" /\ HandOf(x).at = x
    BY DEF HandOf
  <2>3. /\ h \in [kind: {"batch", "todo"}, at: Procs] /\ k \in [kind: {"batch", "todo"}, at: Procs]
        /\ h.at = k.at
    BY <1>2, <2>1, <2>2
  <2>4. PICK p \in Procs : h.at = p /\ k.at = p
    BY <2>3
  <2>5. h.kind # k.kind
    BY <2>3
  <2>6. proc[p].batch \in Seq(Notes) /\ proc[p].todo \in Seq(Notes)
    BY DEF TypeOK, Goroutine
  <2>7. Range(proc[p].batch) \cap Range(proc[p].todo) = {}
    <3>1. HandOf(p) \in Boxes /\ Content[HandOf(p)] = proc[p].batch \o proc[p].todo
      BY TypedBoxed, BoxesAre DEF Boxed
    <3>2. IsInjective(proc[p].batch \o proc[p].todo)
      BY <3>1 DEF Single, Apart, Content
    <3>. QED  BY <2>6, <3>2, JoinDistinct
  <2>8. \/ Held(h) = proc[p].batch /\ Held(k) = proc[p].todo
        \/ Held(h) = proc[p].todo /\ Held(k) = proc[p].batch
    BY <2>3, <2>4, <2>5 DEF Held
  <2>. QED  BY <2>7, <2>8
<1>. QED  BY <1>1, <1>2

\* So the sequences of NoTwin hold each notification once.
LEMMA SingleIsNoTwin == TypeOK /\ Single => NoTwin
<1>. SUFFICES ASSUME TypeOK, Single PROVE NoTwin
  OBVIOUS
<1>1. ASSUME NEW a \in Spots
      PROVE  /\ a[1] \in Holder /\ a[2] \in DOMAIN Held(a[1]) /\ a = <<a[1], a[2]>>
             /\ Held(a[1])[a[2]] \in Range(Held(a[1]))
  BY DEF Spots, Range
<1>2. ASSUME NEW a \in Spots, NEW b \in Spots, Held(a[1])[a[2]] = Held(b[1])[b[2]]
      PROVE  a = b
  <2>1. a[1] = b[1]
    BY <1>1, <1>2, HeldApart
  <2>2. IsInjective(Held(a[1]))
    BY <1>1, HeldIn
  <2>3. a[2] = b[2]
    BY <1>1, <1>2, <2>1, <2>2 DEF IsInjective
  <2>. QED  BY <1>1, <2>1, <2>3
<1>3. ASSUME NEW a \in Spots PROVE Held(a[1])[a[2]] \notin acked \cup dropped
  <2>1. DOMAIN Content = Boxes
    BY DEF Content
  <2>2. Range(Held(a[1])) \subseteq Live
    BY <1>1, <2>1, HeldIn DEF Single, Apart
  <2>. QED  BY <1>1, <2>2 DEF Live
<1>. QED  BY <1>2, <1>3 DEF NoTwin, Single

\* In one place, once, at every moment.
LEMMA SingleInvariant == Spec => []Single
<1>1. Typed /\ Typed' /\ Single /\ [Next]_vars => Single'
  <2>1. Typed /\ Typed' => Ground
    <3>1. TypeOK /\ TypeOK' => Boxed /\ Boxed'
      BY TypedBoxed, PTL
    <3>. QED  BY <3>1 DEF Typed, Ground
  <2>. QED  BY <2>1, SingleStep
<1>. QED  BY <1>1, SingleInit, TypedInvariant, PTL DEF Spec

\* At no moment is a notification in two places, twice in one, or still about
\* after it was acknowledged or dropped.
THEOREM NoNotificationTwice == Spec => []NoTwin
<1>1. Typed /\ Single => NoTwin
  BY SingleIsNoTwin DEF Typed
<1>. QED  BY <1>1, TypedInvariant, SingleInvariant, PTL

-----------------------------------------------------------------------------
(***************************************************************************)
(* The dispatcher implements the pipe                                      *)
(***************************************************************************)

\* What a place is to the pipe.
Here == [h \in Boxes |-> CASE h.kind = "pending" -> "retained"
                           [] h.kind = "queued" -> "parked"
                           [] OTHER -> "moving"]

\* Hands and queues are on the move; the other tables are where it rests.
LEMMA HereIs ==
  /\ \A s \in Subs : /\ Here[PendingOf(s)] = "retained" /\ Here[QueuedOf(s)] = "parked"
                     /\ Here[QueueOf(s)] = "moving"
  /\ \A p \in Procs : Here[HandOf(p)] = "moving"
<1>1. ASSUME NEW s \in Subs
      PROVE  /\ Here[PendingOf(s)] = "retained" /\ Here[QueuedOf(s)] = "parked"
             /\ Here[QueueOf(s)] = "moving"
  BY BoxesAre DEF Here, PendingOf, QueuedOf, QueueOf
<1>2. ASSUME NEW p \in Procs PROVE Here[HandOf(p)] = "moving"
  BY BoxesAre DEF Here, HandOf
<1>. QED  BY <1>1, <1>2

\* Every notification is somewhere, and the pipe sees it there.
Placed ==
  /\ Place \in [1..Len(to) -> Pipe!Places] /\ DOMAIN to = 1..Len(to) /\ Len(to) \in Nat
  /\ \A n \in 1..Len(to) : /\ n \in acked => Place[n] = "delivered"
                           /\ n \in dropped => Place[n] = "dropped"
                           /\ \A h \in Boxes : n \in Range(Content[h]) => Place[n] = Here[h]
                           /\ \/ n \in acked \cup dropped
                              \/ \E h \in Boxes : n \in Range(Content[h])
  /\ \A h \in Boxes : Range(Content[h]) \subseteq 1..Len(to)
  /\ \A n \in acked \cup dropped, h \in Boxes : n \notin Range(Content[h])
  /\ acked \cap dropped = {}

\* What is accounted for and in one place has one place in the pipe.
LEMMA AllPlaced == TypeOK /\ Single /\ AllAccounted => Placed
<1>. SUFFICES ASSUME TypeOK, Single, AllAccounted PROVE Placed
  OBVIOUS
<1>1. Boxed /\ DOMAIN Content = Boxes
  BY TypedBoxed DEF Content
<1>0. acked \cap dropped = {}
  BY DEF Single
<1>2. \A h \in Boxes : Range(Content[h]) \subseteq Live
  BY <1>1 DEF Single, Apart
<1>3. \A h, k \in Boxes : h # k => Range(Content[h]) \cap Range(Content[k]) = {}
  BY <1>1 DEF Single, Apart
<1>4. DOMAIN to = 1..Len(to) /\ Len(to) \in Nat
  BY LenProperties DEF TypeOK
<1>5. ASSUME NEW p \in Procs
      PROVE  /\ HandOf(p) \in Boxes
             /\ Range(Content[HandOf(p)]) = Range(proc[p].batch) \cup Range(proc[p].todo)
  <2>1. proc[p].batch \in Seq(Notes) /\ proc[p].todo \in Seq(Notes)
    BY DEF TypeOK, Goroutine
  <2>2. Content[HandOf(p)] = proc[p].batch \o proc[p].todo /\ HandOf(p) \in Boxes
    BY <1>1, BoxesAre DEF Boxed
  <2>. QED  BY <2>1, <2>2, RangeJoin
<1>6. ASSUME NEW s \in Subs
      PROVE  /\ QueueOf(s) \in Boxes /\ PendingOf(s) \in Boxes /\ QueuedOf(s) \in Boxes
             /\ Range(Content[QueueOf(s)]) = Range(queue[s])
             /\ Range(Content[PendingOf(s)]) = Range(pending[s])
             /\ Range(Content[QueuedOf(s)]) = Range(queued[s])
  BY <1>1, BoxesAre DEF Boxed
<1>. DEFINE R(n) == \E s \in Subs : n \in Range(pending[s])
            K(n) == \E s \in Subs : n \in Range(queued[s])
            Q(n) == \E s \in Subs : n \in Range(queue[s])
            H(n) == \E p \in Procs : n \in Range(proc[p].batch) \cup Range(proc[p].todo)
            Ended(n) == n \in acked \cup dropped
<1>7. ASSUME NEW n
      PROVE  /\ n \in acked /\ n \notin dropped /\ ~R(n) /\ ~K(n) /\ ~Q(n) /\ ~H(n)
                  => PlaceOf(n) = "delivered"
             /\ n \notin acked /\ n \in dropped /\ ~R(n) /\ ~K(n) /\ ~Q(n) /\ ~H(n)
                  => PlaceOf(n) = "dropped"
             /\ ~Ended(n) /\ R(n) /\ ~K(n) /\ ~Q(n) /\ ~H(n) => PlaceOf(n) = "retained"
             /\ ~Ended(n) /\ ~R(n) /\ K(n) /\ ~Q(n) /\ ~H(n) => PlaceOf(n) = "parked"
             /\ ~Ended(n) /\ ~R(n) /\ ~K(n) /\ (Q(n) \/ H(n)) => PlaceOf(n) = "moving"
  <2>1. PlaceOf(n) = CASE n \in acked -> "delivered"
                       [] n \in dropped -> "dropped"
                       [] R(n) -> "retained"
                       [] K(n) -> "parked"
                       [] Q(n) -> "moving"
                       [] H(n) -> "moving"
                       [] OTHER -> "lost"
    BY DEF PlaceOf
  <2>. HIDE DEF R, K, Q, H
  <2>. QED  BY <2>1
<1>8. ASSUME NEW n, NEW h \in Boxes, n \in Range(Content[h])
      PROVE  PlaceOf(n) = Here[h] /\ ~Ended(n) /\ n \in 1..Len(to)
  <2>1. ~Ended(n) /\ n \in 1..Len(to)
    BY <1>2, <1>8 DEF Live
  <2>2. ASSUME NEW k \in Boxes, n \in Range(Content[k]) PROVE k = h
    BY <1>3, <1>8, <2>2
  <2>3. /\ R(n) <=> \E s \in Subs : h = PendingOf(s)
        /\ K(n) <=> \E s \in Subs : h = QueuedOf(s)
        /\ Q(n) <=> \E s \in Subs : h = QueueOf(s)
        /\ H(n) <=> \E p \in Procs : h = HandOf(p)
    BY <1>5, <1>6, <1>8, <2>2
  <2>. HIDE DEF R, K, Q, H, Ended
  <2>4. /\ R(n) => Here[h] = "retained"
        /\ K(n) => Here[h] = "parked"
        /\ Q(n) \/ H(n) => Here[h] = "moving"
    BY <2>3, HereIs
  <2>5. R(n) \/ K(n) \/ Q(n) \/ H(n)
    BY <2>3, BoxesAre
  <2>. QED  BY <1>7, <2>1, <2>4, <2>5
<1>9. ASSUME NEW n \in 1..Len(to), ~Ended(n)
      PROVE  \E h \in Boxes : n \in Range(Content[h])
  <2>1. InTables(n) \/ InHands(n)
    BY <1>9 DEF AllAccounted, Accounted
  <2>2. InTables(n) => \E h \in Boxes : n \in Range(Content[h])
    BY <1>6 DEF InTables
  <2>3. InHands(n) => \E h \in Boxes : n \in Range(Content[h])
    BY <1>5 DEF InHands
  <2>. QED  BY <2>1, <2>2, <2>3
<1>10. ASSUME NEW n, Ended(n) PROVE ~R(n) /\ ~K(n) /\ ~Q(n) /\ ~H(n)
  BY <1>5, <1>6, <1>8, <1>10
<1>11. \A h \in Boxes : Here[h] \in {"retained", "parked", "moving"}
  BY HereIs, BoxesAre
<1>12. ASSUME NEW n \in 1..Len(to) PROVE PlaceOf(n) \in Pipe!Places
  <2>1. CASE Ended(n)
    BY <1>7, <1>0, <1>10, <2>1 DEF Pipe!Places
  <2>2. CASE ~Ended(n)
    BY <1>8, <1>9, <1>11, <2>2 DEF Pipe!Places
  <2>. QED  BY <2>1, <2>2
<1>13. Place \in [1..Len(to) -> Pipe!Places] /\ \A n \in 1..Len(to) : Place[n] = PlaceOf(n)
  BY <1>12 DEF Place
<1>14. ASSUME NEW n \in 1..Len(to)
       PROVE  /\ n \in acked => Place[n] = "delivered"
              /\ n \in dropped => Place[n] = "dropped"
              /\ \A h \in Boxes : n \in Range(Content[h]) => Place[n] = Here[h]
              /\ \/ n \in acked \cup dropped
                 \/ \E h \in Boxes : n \in Range(Content[h])
  <2>1. (n \in acked => Place[n] = "delivered") /\ (n \in dropped => Place[n] = "dropped")
    BY <1>7, <1>0, <1>10, <1>13
  <2>2. \A h \in Boxes : n \in Range(Content[h]) => Place[n] = Here[h]
    BY <1>8, <1>13
  <2>. QED  BY <1>9, <2>1, <2>2
<1>. QED  BY <1>4, <1>8, <1>0, <1>13, <1>14 DEF Placed

\* What is in a place is for the subscription the place is for.
Aimed == \A h \in Boxes : \A n \in Range(Content[h]) : to[n] = Owner[h]

\* What may be taken for granted on both sides of a step.
Standing == /\ Ground /\ Placed /\ Placed' /\ Aimed

\* A sequence something is in is not empty.
LEMMA NotEmpty ==
  ASSUME NEW s, NEW x \in Range(s)
  PROVE  s # <<>>
BY DEF Range

\* The ranges before and after a passing on.
LEMMA PassRanges ==
  ASSUME Ground, NEW h, NEW k, NEW a, Pass(h, k, a)
  PROVE  \E R : /\ Range(Content[h]) = Range(a) \cup R /\ Range(Content'[h]) = R
                /\ Range(Content'[k]) = Range(Content[k]) \cup Range(a)
                /\ h \in Boxes /\ k \in Boxes \ {h}
                /\ \A n \in R : Owner'[h] = Owner[h]
                /\ \A n \in Range(a) : Owner'[k] = Owner[h]
                /\ \A n \in Range(Content[k]) : Owner'[k] = Owner[k]
                /\ \A j \in Boxes \ {h, k} : Content'[j] = Content[j]
                /\ \A j \in Boxes \ {h, k} : \A n \in Range(Content[j]) : Owner'[j] = Owner[j]
                /\ UNCHANGED <<to, acked, dropped>>
<1>1. PICK r \in Seq(Notes) : /\ Content[h] = a \o r /\ Content'[h] = r
                              /\ r # <<>> => Owner'[h] = Owner[h]
  BY DEF Pass
<1>2. /\ h \in Boxes /\ k \in Boxes \ {h} /\ a \in Seq(Notes)
      /\ Content'[k] = Content[k] \o a /\ UNCHANGED <<to, acked, dropped>>
      /\ a # <<>> => Owner'[k] = Owner[h]
      /\ Content[k] # <<>> => Owner'[k] = Owner[k]
      /\ \A j \in Boxes \ {h, k} : /\ Content'[j] = Content[j]
                                   /\ Content[j] # <<>> => Owner'[j] = Owner[j]
  BY DEF Pass, Elsewhere
<1>3. Content[k] \in Seq(Notes)
  BY <1>2, ContentIs
<1>4. Range(Content[h]) = Range(a) \cup Range(r)
  BY <1>1, <1>2, RangeJoin
<1>5. Range(Content'[k]) = Range(Content[k]) \cup Range(a)
  BY <1>2, <1>3, RangeJoin
<1>6. /\ \A n \in Range(r) : r # <<>>
      /\ \A n \in Range(a) : a # <<>>
      /\ \A j \in Boxes : \A n \in Range(Content[j]) : Content[j] # <<>>
  BY NotEmpty
<1>7. PICK R : R = Range(r)
  OBVIOUS
<1>. QED  BY <1>1, <1>2, <1>4, <1>5, <1>6, <1>7

\* The ranges before and after a batch comes to its end.
LEMMA EndRanges ==
  ASSUME Ground, NEW h, NEW a, End(h, a)
  PROVE  \E R : /\ Range(Content[h]) = Range(a) \cup R /\ Range(Content'[h]) = R
                /\ h \in Boxes
                /\ \A n \in R : Owner'[h] = Owner[h]
                /\ \A j \in Boxes \ {h} : Content'[j] = Content[j]
                /\ \A j \in Boxes \ {h} : \A n \in Range(Content[j]) : Owner'[j] = Owner[j]
                /\ UNCHANGED to
<1>1. PICK r \in Seq(Notes) : /\ Content[h] = a \o r /\ Content'[h] = r
                              /\ r # <<>> => Owner'[h] = Owner[h]
  BY DEF End
<1>2. /\ h \in Boxes /\ a \in Seq(Notes) /\ UNCHANGED to
      /\ \A j \in Boxes \ {h} : /\ Content'[j] = Content[j]
                                /\ Content[j] # <<>> => Owner'[j] = Owner[j]
  BY DEF End, Elsewhere
<1>3. Range(Content[h]) = Range(a) \cup Range(r)
  BY <1>1, <1>2, RangeJoin
<1>4. /\ \A n \in Range(r) : r # <<>>
      /\ \A j \in Boxes : \A n \in Range(Content[j]) : Content[j] # <<>>
  BY NotEmpty
<1>5. PICK R : R = Range(r)
  OBVIOUS
<1>. QED  BY <1>1, <1>2, <1>3, <1>4, <1>5

\* The ranges before and after a full batch leaves.
LEMMA FillRanges ==
  ASSUME Ground, NEW p \in Procs, NEW q \in Procs, NEW s \in Subs, NEW e \in Notes,
         Fill(p, q, s, e)
  PROVE  \E R : /\ Range(Content[HandOf(p)]) = {e} \cup R /\ Range(Content'[HandOf(p)]) = R
                /\ Range(Content[HandOf(q)]) = {} /\ Range(Content'[QueueOf(s)]) = {}
                /\ Range(Content'[HandOf(q)]) = Range(Content[QueueOf(s)]) \cup {e}
                /\ Owner[HandOf(p)] = s /\ Owner'[HandOf(q)] = s /\ Owner[QueueOf(s)] = s
                /\ \A n \in R : Owner'[HandOf(p)] = s
                /\ \A j \in Boxes \ {HandOf(p), QueueOf(s), HandOf(q)} :
                     /\ Content'[j] = Content[j]
                     /\ \A n \in Range(Content[j]) : Owner'[j] = Owner[j]
                /\ HandOf(p) \in Boxes /\ HandOf(q) \in Boxes /\ QueueOf(s) \in Boxes
                /\ UNCHANGED <<to, acked, dropped>>
<1>. DEFINE h == HandOf(p)  k == QueueOf(s)  l == HandOf(q)
<1>1. PICK r \in Seq(Notes) : /\ Content[h] = <<e>> \o r /\ Content'[h] = r
                              /\ r # <<>> => Owner'[h] = Owner[h]
  BY DEF Fill
<1>2. PICK a \in Seq(Notes) : a = <<e>> /\ Range(a) = {e}
  <2>1. <<>> \in Seq(Notes)
    OBVIOUS
  <2>2. <<e>> \in Seq(Notes)
    BY <2>1, OneMore
  <2>3. Range(<<e>>) = {e}
    BY DEF Range
  <2>. QED  BY <2>2, <2>3
<1>3. /\ h \in Boxes /\ k \in Boxes /\ l \in Boxes /\ Owner[k] = s
  BY BoxesAre DEF Ground, Boxed
<1>4. /\ Content[l] = <<>> /\ Content'[k] = <<>> /\ Content'[l] = Content[k] \o a
      /\ Owner[h] = s /\ Owner'[l] = s
      /\ \A j \in Boxes \ {h, k, l} : /\ Content'[j] = Content[j]
                                      /\ Content[j] # <<>> => Owner'[j] = Owner[j]
      /\ UNCHANGED <<to, acked, dropped>>
  BY <1>2 DEF Fill, Elsewhere
<1>5. Content[k] \in Seq(Notes)
  BY <1>3, ContentIs
<1>6. Range(Content[h]) = {e} \cup Range(r)
  <2>1. Content[h] = a \o r
    BY <1>1, <1>2
  <2>2. Range(a \o r) = Range(a) \cup Range(r)
    BY RangeJoin
  <2>. QED  BY <1>2, <2>1, <2>2
<1>7. Range(Content'[l]) = Range(Content[k]) \cup {e}
  <2>1. Range(Content[k] \o a) = Range(Content[k]) \cup Range(a)
    BY <1>5, RangeJoin
  <2>. QED  BY <1>2, <1>4, <2>1
<1>8. /\ \A n \in Range(r) : r # <<>>
      /\ \A j \in Boxes : \A n \in Range(Content[j]) : Content[j] # <<>>
  BY NotEmpty
<1>9. Range(Content[l]) = {} /\ Range(Content'[k]) = {}
  BY <1>4 DEF Range
<1>10. PICK R : R = Range(r)
  OBVIOUS
<1>. HIDE DEF h, k, l
<1>11. \E S : /\ Range(Content[h]) = {e} \cup S /\ Range(Content'[h]) = S
              /\ \A n \in S : Owner'[h] = s
  BY <1>1, <1>4, <1>6, <1>8, <1>10
<1>. QED  BY <1>3, <1>4, <1>7, <1>8, <1>9, <1>11 DEF h, k, l

\* The ranges before and after a burst.
LEMMA ComeRanges ==
  ASSUME Ground, NEW h, NEW s \in Subs, NEW k, Come(h, s, k)
  PROVE  /\ k \in 1..MaxBurst /\ k \in Nat \ {0}
         /\ Len(to) \in Nat /\ Len(to') = Len(to) + k
         /\ \A n \in 1..Len(to) : to'[n] = to[n]
         /\ \A n \in (Len(to) + 1)..(Len(to) + k) : to'[n] = s
         /\ h \in Boxes /\ Range(Content'[h]) = (Len(to) + 1)..(Len(to) + k)
         /\ Range(Content[h]) = {} /\ Owner'[h] = s
         /\ \A j \in Boxes \ {h} : Content'[j] = Content[j]
         /\ \A j \in Boxes \ {h} : \A n \in Range(Content[j]) : Owner'[j] = Owner[j]
         /\ UNCHANGED <<acked, dropped>>
<1>1. /\ k \in 1..MaxBurst /\ k \in Nat \ {0} /\ Len(to) + k <= MaxNotes
      /\ to' = to \o [i \in 1..k |-> s] /\ UNCHANGED <<acked, dropped>>
      /\ h \in Boxes /\ Content[h] = <<>> /\ Content'[h] = Fresh(k) /\ Owner'[h] = s
      /\ \A j \in Boxes \ {h} : /\ Content'[j] = Content[j]
                                /\ Content[j] # <<>> => Owner'[j] = Owner[j]
  BY DispatcherAssumption DEF Come, Elsewhere
<1>2. Len(to) \in Nat
  BY LenProperties DEF Ground, TypeOK
<1>3. Range(Fresh(k)) = (Len(to) + 1)..(Len(to) + k) /\ Len(to') = Len(to) + k
  BY <1>1, FreshNotes, ToGrows DEF Ground
<1>4. Range(Content[h]) = {}
  BY <1>1 DEF Range
<1>5. PICK b : b = [i \in 1..k |-> s]
  OBVIOUS
<1>6. b \in Seq(Subs) /\ Len(b) = k /\ \A i \in 1..k : b[i] = s
  <2>1. b \in [1..k -> Subs]
    BY <1>5
  <2>2. b \in Seq(Subs) /\ Len(b) = k
    BY <1>1, <2>1, LenProperties, SeqDef
  <2>. QED  BY <1>5, <2>2
<1>7. \A i \in 1..(Len(to) + k) : (to \o b)[i] = IF i <= Len(to) THEN to[i] ELSE b[i - Len(to)]
  <2>1. to \in Seq(Subs)
    BY DEF Ground, TypeOK
  <2>. QED  BY <1>6, <2>1, ConcatProperties
<1>8. to' = to \o b
  BY <1>1, <1>5
<1>9. \A n \in 1..Len(to) : to'[n] = to[n]
  BY <1>1, <1>2, <1>7, <1>8
<1>10. \A n \in (Len(to) + 1)..(Len(to) + k) : to'[n] = s
  BY <1>1, <1>2, <1>6, <1>7, <1>8
<1>11. \A j \in Boxes : \A n \in Range(Content[j]) : Content[j] # <<>>
  BY NotEmpty
<1>. QED  BY <1>1, <1>2, <1>3, <1>4, <1>9, <1>10, <1>11

\* The ranges where nothing moves.
LEMMA StillRanges ==
  ASSUME Ground, Still
  PROVE  /\ \A j \in Boxes : Content'[j] = Content[j]
         /\ \A j \in Boxes : \A n \in Range(Content[j]) : Owner'[j] = Owner[j]
         /\ UNCHANGED <<to, acked, dropped>>
BY NotEmpty DEF Still, Elsewhere

\* No step puts a notification in a place that is for somebody else.
LEMMA AimedStep ==
  ASSUME Standing, [Next]_vars
  PROVE  Aimed'
<1>. SUFFICES ASSUME Ground, Aimed PROVE Aimed'
  BY DEF Standing
<1>0. Traffic
  BY StepsAreTraffic
<1>1. ASSUME NEW h, NEW k, NEW a, Pass(h, k, a) PROVE Aimed'
  <2>1. PICK R : /\ Range(Content[h]) = Range(a) \cup R /\ Range(Content'[h]) = R
                 /\ Range(Content'[k]) = Range(Content[k]) \cup Range(a)
                 /\ h \in Boxes /\ k \in Boxes \ {h}
                 /\ \A n \in R : Owner'[h] = Owner[h]
                 /\ \A n \in Range(a) : Owner'[k] = Owner[h]
                 /\ \A n \in Range(Content[k]) : Owner'[k] = Owner[k]
                 /\ \A j \in Boxes \ {h, k} : Content'[j] = Content[j]
                 /\ \A j \in Boxes \ {h, k} : \A n \in Range(Content[j]) : Owner'[j] = Owner[j]
                 /\ UNCHANGED <<to, acked, dropped>>
    BY <1>1, PassRanges
  <2>2. ASSUME NEW j \in Boxes, NEW n \in Range(Content'[j]) PROVE to'[n] = Owner'[j]
    <3>1. CASE j = h
      BY <2>1, <2>2, <3>1 DEF Aimed
    <3>2. CASE j = k
      BY <2>1, <2>2, <3>2 DEF Aimed
    <3>3. CASE j \notin {h, k}
      BY <2>1, <2>2, <3>3 DEF Aimed
    <3>. QED  BY <3>1, <3>2, <3>3
  <2>. QED  BY <2>2 DEF Aimed, Boxes
<1>2. ASSUME NEW h, NEW a, End(h, a) PROVE Aimed'
  <2>1. PICK R : /\ Range(Content[h]) = Range(a) \cup R /\ Range(Content'[h]) = R
                 /\ h \in Boxes
                 /\ \A n \in R : Owner'[h] = Owner[h]
                 /\ \A j \in Boxes \ {h} : Content'[j] = Content[j]
                 /\ \A j \in Boxes \ {h} : \A n \in Range(Content[j]) : Owner'[j] = Owner[j]
                 /\ UNCHANGED to
    BY <1>2, EndRanges
  <2>2. ASSUME NEW j \in Boxes, NEW n \in Range(Content'[j]) PROVE to'[n] = Owner'[j]
    <3>1. CASE j = h
      BY <2>1, <2>2, <3>1 DEF Aimed
    <3>2. CASE j # h
      BY <2>1, <2>2, <3>2 DEF Aimed
    <3>. QED  BY <3>1, <3>2
  <2>. QED  BY <2>2 DEF Aimed, Boxes
<1>3. ASSUME NEW p \in Procs, NEW q \in Procs, NEW s \in Subs, NEW e \in Notes, Fill(p, q, s, e)
      PROVE  Aimed'
  <2>. DEFINE h == HandOf(p)  k == QueueOf(s)  l == HandOf(q)
  <2>1. PICK R : /\ Range(Content[h]) = {e} \cup R /\ Range(Content'[h]) = R
                 /\ Range(Content[l]) = {} /\ Range(Content'[k]) = {}
                 /\ Range(Content'[l]) = Range(Content[k]) \cup {e}
                 /\ Owner[h] = s /\ Owner'[l] = s /\ Owner[k] = s
                 /\ \A n \in R : Owner'[h] = s
                 /\ \A j \in Boxes \ {h, k, l} :
                      /\ Content'[j] = Content[j]
                      /\ \A n \in Range(Content[j]) : Owner'[j] = Owner[j]
                 /\ h \in Boxes /\ l \in Boxes /\ k \in Boxes
                 /\ UNCHANGED <<to, acked, dropped>>
    BY <1>3, FillRanges
  <2>. HIDE DEF h, k, l
  <2>2. ASSUME NEW j \in Boxes, NEW n \in Range(Content'[j]) PROVE to'[n] = Owner'[j]
    <3>1. CASE j = h
      BY <2>1, <2>2, <3>1 DEF Aimed
    <3>2. CASE j = k
      BY <2>1, <2>2, <3>2 DEF Aimed
    <3>3. CASE j = l
      BY <2>1, <2>2, <3>3 DEF Aimed
    <3>4. CASE j \notin {h, k, l}
      BY <2>1, <2>2, <3>4 DEF Aimed
    <3>. QED  BY <3>1, <3>2, <3>3, <3>4
  <2>. QED  BY <2>2 DEF Aimed, Boxes
<1>4. ASSUME NEW h, NEW s \in Subs, NEW k, Come(h, s, k), Placed PROVE Aimed'
  <2>1. /\ k \in Nat \ {0} /\ Len(to) \in Nat
        /\ \A n \in 1..Len(to) : to'[n] = to[n]
        /\ \A n \in (Len(to) + 1)..(Len(to) + k) : to'[n] = s
        /\ h \in Boxes /\ Range(Content'[h]) = (Len(to) + 1)..(Len(to) + k)
        /\ Owner'[h] = s
        /\ \A j \in Boxes \ {h} : Content'[j] = Content[j]
        /\ \A j \in Boxes \ {h} : \A n \in Range(Content[j]) : Owner'[j] = Owner[j]
    BY <1>4, ComeRanges, ZenonT(60)
  <2>2. ASSUME NEW j \in Boxes, NEW n \in Range(Content'[j]) PROVE to'[n] = Owner'[j]
    <3>1. CASE j = h
      BY <2>1, <2>2, <3>1
    <3>2. CASE j # h
      <4>1. n \in Range(Content[j]) /\ Owner'[j] = Owner[j]
        BY <2>1, <2>2, <3>2
      <4>2. n \in 1..Len(to) /\ to[n] = Owner[j]
        BY <1>4, <4>1 DEF Placed, Aimed
      <4>. QED  BY <2>1, <4>1, <4>2
    <3>. QED  BY <3>1, <3>2
  <2>. QED  BY <2>2 DEF Aimed, Boxes
<1>5. ASSUME Still PROVE Aimed'
  BY <1>5, StillRanges DEF Aimed, Boxes
<1>6. Queues \/ Parks \/ Keeps \/ Flushes \/ Returns \/ Releases => Aimed'
  BY <1>1 DEF Queues, Parks, Keeps, Flushes, Returns, Releases
<1>7. Fills => Aimed'
  BY <1>3 DEF Fills
<1>8. Acks \/ Drops => Aimed'
  BY <1>2 DEF Acks, Drops
<1>9. Comes => Aimed'
  BY <1>4 DEF Comes, Standing
<1>10. Ends \/ Holds \/ (Same /\ Still) => Aimed'
  BY <1>5 DEF Ends, Holds
<1>. QED  BY <1>0, <1>6, <1>7, <1>8, <1>9, <1>10 DEF Traffic

-----------------------------------------------------------------------------
(***************************************************************************)
(* What the pipe sees of each step                                         *)
(***************************************************************************)

\* The notifications N, which are s's, go from one place of the pipe to another.
Goes(s, from, dest, N) ==
  /\ N \subseteq {n \in 1..Len(to) : to[n] = s /\ Place[n] = from}
  /\ Place' = [n \in 1..Len(to) |-> IF n \in N THEN dest ELSE Place[n]]
  /\ UNCHANGED to

\* Passing on moves a group of one subscription's notifications in the pipe.
LEMMA PassGoes ==
  ASSUME Standing, NEW h, NEW k, NEW a, Pass(h, k, a)
  PROVE  Goes(Owner[h], Here[h], Here[k], Range(a))
<1>1. PICK R : /\ Range(Content[h]) = Range(a) \cup R /\ Range(Content'[h]) = R
               /\ Range(Content'[k]) = Range(Content[k]) \cup Range(a)
               /\ h \in Boxes /\ k \in Boxes \ {h}
               /\ \A j \in Boxes \ {h, k} : Content'[j] = Content[j]
               /\ UNCHANGED <<to, acked, dropped>>
  BY PassRanges DEF Standing
<1>2. Range(a) \subseteq {n \in 1..Len(to) : to[n] = Owner[h] /\ Place[n] = Here[h]}
  BY <1>1 DEF Standing, Placed, Aimed
<1>3. ASSUME NEW n \in 1..Len(to)
      PROVE  Place'[n] = IF n \in Range(a) THEN Here[k] ELSE Place[n]
  <2>0. /\ n \in acked' => Place'[n] = "delivered"
        /\ n \in dropped' => Place'[n] = "dropped"
        /\ \A j \in Boxes : n \in Range(Content'[j]) => Place'[n] = Here[j]
    BY <1>1 DEF Standing, Placed, Boxes, Here
  <2>1. /\ n \in acked => Place[n] = "delivered"
        /\ n \in dropped => Place[n] = "dropped"
        /\ \A j \in Boxes : n \in Range(Content[j]) => Place[n] = Here[j]
        /\ n \in acked \cup dropped \/ \E j \in Boxes : n \in Range(Content[j])
        /\ n \in acked \cup dropped => n \notin Range(Content[h])
    BY <1>1 DEF Standing, Placed
  <2>2. CASE n \in Range(a)
    BY <1>1, <2>0, <2>2
  <2>3. CASE n \in acked \cup dropped /\ n \notin Range(a)
    BY <1>1, <2>0, <2>1, <2>3
  <2>4. ASSUME NEW j \in Boxes, n \in Range(Content[j]), n \notin Range(a)
        PROVE  Place'[n] = Place[n]
    <3>1. n \in Range(Content'[j])
      BY <1>1, <2>4
    <3>. QED  BY <2>0, <2>1, <2>4, <3>1
  <2>. QED  BY <2>1, <2>2, <2>3, <2>4
<1>4. Place' \in [1..Len(to) -> Pipe!Places]
  BY <1>1 DEF Standing, Placed
<1>5. Place' = [n \in 1..Len(to) |-> IF n \in Range(a) THEN Here[k] ELSE Place[n]]
  BY <1>3, <1>4
<1>. QED  BY <1>1, <1>2, <1>5 DEF Goes

\* What comes to its end leaves the pipe delivered or dropped.
LEMMA EndGoes ==
  ASSUME Standing, NEW h, NEW a, End(h, a), NEW dest \in {"delivered", "dropped"},
         dest = "delivered" => acked' = acked \cup Range(a) /\ UNCHANGED dropped,
         dest = "dropped" => dropped' = dropped \cup Range(a) /\ UNCHANGED acked
  PROVE  Goes(Owner[h], Here[h], dest, Range(a))
<1>1. PICK R : /\ Range(Content[h]) = Range(a) \cup R /\ Range(Content'[h]) = R
               /\ h \in Boxes
               /\ \A j \in Boxes \ {h} : Content'[j] = Content[j]
               /\ UNCHANGED to
  BY EndRanges DEF Standing
<1>2. Range(a) \subseteq {n \in 1..Len(to) : to[n] = Owner[h] /\ Place[n] = Here[h]}
  BY <1>1 DEF Standing, Placed, Aimed
<1>3. ASSUME NEW n \in 1..Len(to)
      PROVE  Place'[n] = IF n \in Range(a) THEN dest ELSE Place[n]
  <2>0. /\ n \in acked' => Place'[n] = "delivered"
        /\ n \in dropped' => Place'[n] = "dropped"
        /\ \A j \in Boxes : n \in Range(Content'[j]) => Place'[n] = Here[j]
    BY <1>1 DEF Standing, Placed, Boxes, Here
  <2>1. /\ n \in acked => Place[n] = "delivered"
        /\ n \in dropped => Place[n] = "dropped"
        /\ \A j \in Boxes : n \in Range(Content[j]) => Place[n] = Here[j]
        /\ n \in acked \cup dropped \/ \E j \in Boxes : n \in Range(Content[j])
    BY <1>1 DEF Standing, Placed
  <2>2. CASE n \in Range(a)
    BY <2>0, <2>2
  <2>3. CASE n \in acked \cup dropped /\ n \notin Range(a)
    BY <2>0, <2>1, <2>3
  <2>4. ASSUME NEW j \in Boxes, n \in Range(Content[j]), n \notin Range(a)
        PROVE  Place'[n] = Place[n]
    <3>1. n \in Range(Content'[j])
      BY <1>1, <2>4
    <3>. QED  BY <2>0, <2>1, <2>4, <3>1
  <2>. QED  BY <2>1, <2>2, <2>3, <2>4
<1>4. Place' \in [1..Len(to) -> Pipe!Places]
  BY <1>1 DEF Standing, Placed
<1>5. Place' = [n \in 1..Len(to) |-> IF n \in Range(a) THEN dest ELSE Place[n]]
  BY <1>3, <1>4
<1>. QED  BY <1>1, <1>2, <1>5 DEF Goes

\* What goes from hand to hand by way of the queue was moving all along.
LEMMA FillGoes ==
  ASSUME Standing, NEW p \in Procs, NEW q \in Procs, NEW s \in Subs, NEW e \in Notes,
         Fill(p, q, s, e)
  PROVE  Place' = Place /\ UNCHANGED to
<1>. DEFINE h == HandOf(p)  k == QueueOf(s)  l == HandOf(q)
<1>1. PICK R : /\ Range(Content[h]) = {e} \cup R /\ Range(Content'[h]) = R
               /\ Range(Content[l]) = {} /\ Range(Content'[k]) = {}
               /\ Range(Content'[l]) = Range(Content[k]) \cup {e}
               /\ \A j \in Boxes \ {h, k, l} : Content'[j] = Content[j]
               /\ h \in Boxes /\ l \in Boxes /\ k \in Boxes
               /\ UNCHANGED <<to, acked, dropped>>
  BY FillRanges DEF Standing
<1>2. Here[h] = "moving" /\ Here[k] = "moving" /\ Here[l] = "moving"
  BY HereIs
<1>. HIDE DEF h, k, l
<1>3. ASSUME NEW n \in 1..Len(to) PROVE Place'[n] = Place[n]
  <2>0. /\ n \in acked' => Place'[n] = "delivered"
        /\ n \in dropped' => Place'[n] = "dropped"
        /\ \A j \in Boxes : n \in Range(Content'[j]) => Place'[n] = Here[j]
    BY <1>1 DEF Standing, Placed, Boxes, Here
  <2>1. /\ n \in acked => Place[n] = "delivered"
        /\ n \in dropped => Place[n] = "dropped"
        /\ \A j \in Boxes : n \in Range(Content[j]) => Place[n] = Here[j]
        /\ n \in acked \cup dropped \/ \E j \in Boxes : n \in Range(Content[j])
    BY <1>1 DEF Standing, Placed
  <2>2. CASE n \in acked \cup dropped
    BY <1>1, <2>0, <2>1, <2>2
  <2>3. ASSUME NEW j \in Boxes, n \in Range(Content[j]) PROVE Place'[n] = Place[n]
    <3>1. CASE j = h
      <4>1. n \in Range(Content'[h]) \/ n \in Range(Content'[l])
        BY <1>1, <2>3, <3>1
      <4>. QED  BY <1>1, <1>2, <2>0, <2>1, <2>3, <3>1, <4>1
    <3>2. CASE j = k
      <4>1. n \in Range(Content'[l])
        BY <1>1, <2>3, <3>2
      <4>. QED  BY <1>1, <1>2, <2>0, <2>1, <2>3, <3>2, <4>1
    <3>3. CASE j = l
      BY <1>1, <2>3, <3>3
    <3>4. CASE j \notin {h, k, l}
      <4>1. n \in Range(Content'[j])
        BY <1>1, <2>3, <3>4
      <4>. QED  BY <2>0, <2>1, <2>3, <4>1
    <3>. QED  BY <3>1, <3>2, <3>3, <3>4
  <2>. QED  BY <2>1, <2>2, <2>3
<1>4. Place' \in [1..Len(to) -> Pipe!Places] /\ Place \in [1..Len(to) -> Pipe!Places]
  BY <1>1 DEF Standing, Placed
<1>5. Place' = Place
  BY <1>3, <1>4
<1>. QED  BY <1>1, <1>5

\* Where nothing moves the pipe stays as it is.
LEMMA StillGoes ==
  ASSUME Standing, Still
  PROVE  Place' = Place /\ UNCHANGED to
<1>1. /\ \A j \in Boxes : Content'[j] = Content[j]
      /\ UNCHANGED <<to, acked, dropped>>
  BY StillRanges DEF Standing
<1>2. ASSUME NEW n \in 1..Len(to) PROVE Place'[n] = Place[n]
  <2>0. /\ n \in acked' => Place'[n] = "delivered"
        /\ n \in dropped' => Place'[n] = "dropped"
        /\ \A j \in Boxes : n \in Range(Content'[j]) => Place'[n] = Here[j]
    BY <1>1 DEF Standing, Placed, Boxes, Here
  <2>1. /\ n \in acked => Place[n] = "delivered"
        /\ n \in dropped => Place[n] = "dropped"
        /\ \A j \in Boxes : n \in Range(Content[j]) => Place[n] = Here[j]
        /\ n \in acked \cup dropped \/ \E j \in Boxes : n \in Range(Content[j])
    BY <1>1 DEF Standing, Placed
  <2>. QED  BY <1>1, <2>0, <2>1
<1>3. Place' \in [1..Len(to) -> Pipe!Places] /\ Place \in [1..Len(to) -> Pipe!Places]
  BY <1>1 DEF Standing, Placed
<1>4. Place' = Place
  BY <1>2, <1>3
<1>. QED  BY <1>1, <1>4

\* A burst joins the pipe moving.
LEMMA ComeGoes ==
  ASSUME Standing, NEW p \in Procs, NEW s \in Subs, NEW k, Come(HandOf(p), s, k)
  PROVE  /\ k \in 1..MaxBurst /\ to' = to \o [i \in 1..k |-> s]
         /\ Place' = Place \o [i \in 1..k |-> "moving"]
<1>. DEFINE h == HandOf(p)
<1>1. /\ k \in 1..MaxBurst /\ k \in Nat \ {0} /\ Len(to) \in Nat /\ Len(to') = Len(to) + k
      /\ h \in Boxes /\ Range(Content'[h]) = (Len(to) + 1)..(Len(to) + k)
      /\ Range(Content[h]) = {}
      /\ \A j \in Boxes \ {h} : Content'[j] = Content[j]
      /\ UNCHANGED <<acked, dropped>>
  BY ComeRanges DEF Standing
<1>2. Here[h] = "moving"
  BY HereIs
<1>. HIDE DEF h
<1>3. ASSUME NEW n \in 1..(Len(to) + k)
      PROVE  Place'[n] = IF n <= Len(to) THEN Place[n] ELSE "moving"
  <2>0. /\ n \in acked' => Place'[n] = "delivered"
        /\ n \in dropped' => Place'[n] = "dropped"
        /\ \A j \in Boxes : n \in Range(Content'[j]) => Place'[n] = Here[j]
    BY <1>1 DEF Standing, Placed, Boxes, Here
  <2>1. CASE n <= Len(to)
    <3>0. n \in 1..Len(to)
      BY <1>1, <2>1
    <3>1. /\ n \in acked => Place[n] = "delivered"
          /\ n \in dropped => Place[n] = "dropped"
          /\ \A j \in Boxes : n \in Range(Content[j]) => Place[n] = Here[j]
          /\ n \in acked \cup dropped \/ \E j \in Boxes : n \in Range(Content[j])
      BY <3>0 DEF Standing, Placed
    <3>2. CASE n \in acked \cup dropped
      BY <1>1, <2>0, <2>1, <3>1, <3>2
    <3>3. ASSUME NEW j \in Boxes, n \in Range(Content[j]) PROVE Place'[n] = Place[n]
      <4>1. j # h
        BY <1>1, <3>3
      <4>. QED  BY <1>1, <2>0, <3>1, <3>3, <4>1
    <3>. QED  BY <2>1, <3>1, <3>2, <3>3
  <2>2. CASE ~(n <= Len(to))
    <3>1. n \in Range(Content'[h])
      BY <1>1, <2>2
    <3>. QED  BY <1>1, <1>2, <2>0, <2>2, <3>1
  <2>. QED  BY <2>1, <2>2
<1>4. /\ Place' \in [1..(Len(to) + k) -> Pipe!Places] /\ Place \in [1..Len(to) -> Pipe!Places]
  BY <1>1 DEF Standing, Placed
<1>5. PICK m : m = [i \in 1..k |-> "moving"]
  OBVIOUS
<1>6. m \in Seq(Pipe!Places) /\ Len(m) = k /\ \A i \in 1..k : m[i] = "moving"
  <2>1. m \in [1..k -> Pipe!Places]
    BY <1>5 DEF Pipe!Places
  <2>2. m \in Seq(Pipe!Places) /\ Len(m) = k
    BY <1>1, <2>1, LenProperties, SeqDef
  <2>. QED  BY <1>5, <2>2
<1>7. Place \in Seq(Pipe!Places) /\ Len(Place) = Len(to)
  BY <1>1, <1>4, LenProperties, SeqDef
<1>8. /\ Place \o m \in Seq(Pipe!Places) /\ Len(Place \o m) = Len(to) + k
      /\ \A i \in 1..(Len(to) + k) : (Place \o m)[i] = IF i <= Len(to) THEN Place[i] ELSE m[i - Len(to)]
  <2>1. /\ Place \o m \in Seq(Pipe!Places) /\ Len(Place \o m) = Len(Place) + Len(m)
        /\ \A i \in 1..(Len(Place) + Len(m)) :
             (Place \o m)[i] = IF i <= Len(Place) THEN Place[i] ELSE m[i - Len(Place)]
    BY <1>6, <1>7, ConcatProperties
  <2>. QED  BY <1>6, <1>7, <2>1
<1>9. Place' \in Seq(Pipe!Places) /\ Len(Place') = Len(to) + k
  <2>1. Len(to) + k \in Nat
    BY <1>1
  <2>. QED  BY <1>4, <2>1, LenProperties, SeqDef
<1>10. ASSUME NEW i \in 1..(Len(to) + k) PROVE Place'[i] = (Place \o m)[i]
  <2>1. CASE i <= Len(to)
    BY <1>3, <1>8, <2>1
  <2>2. CASE ~(i <= Len(to))
    <3>1. i - Len(to) \in 1..k
      BY <1>1, <2>2
    <3>. QED  BY <1>3, <1>6, <1>8, <2>2, <3>1
  <2>. QED  BY <2>1, <2>2
<1>11. Place' = Place \o m
  BY <1>8, <1>9, <1>10, SeqEqual
<1>. QED  BY <1>1, <1>5, <1>11 DEF Come

\* A step of the pipe, or none.
PipeStep == [Pipe!Next]_(Pipe!vars)

\* The steps of the pipe, in these terms.
LEMMA PipeSteps ==
  ASSUME NEW s \in Subs, NEW N, Placed
  PROVE  /\ UNCHANGED <<to, Place, Alive, Halted>> => PipeStep
         /\ Goes(s, "moving", "delivered", N) /\ UNCHANGED <<Alive, Halted>> => PipeStep
         /\ Goes(s, "moving", "retained", N) /\ UNCHANGED <<Alive, Halted>> => PipeStep
         /\ s \in Halted /\ Goes(s, "moving", "parked", N) /\ UNCHANGED <<Alive, Halted>> => PipeStep
         /\ s \notin Alive /\ Goes(s, "moving", "dropped", N) /\ UNCHANGED <<Alive, Halted>> => PipeStep
         /\ Goes(s, "moving", "moving", N) /\ UNCHANGED <<Alive, Halted>> => PipeStep
         /\ /\ Goes(s, "retained", "moving", N) /\ UNCHANGED <<Alive, Halted>>
            /\ {n \in 1..Len(to) : to[n] = s /\ Place[n] = "retained"} \subseteq N
            => PipeStep
         /\ /\ Goes(s, "parked", "moving", N) /\ UNCHANGED Alive /\ Halted' = Halted \ {s}
            /\ {n \in 1..Len(to) : to[n] = s /\ Place[n] = "parked"} \subseteq N
            => PipeStep
         /\ UNCHANGED <<to, Place, Halted>> /\ Alive' = Alive \ {s} => PipeStep
         /\ UNCHANGED <<to, Place, Alive>> /\ Halted' = Halted \cup {s} => PipeStep
         /\ /\ s \in Alive /\ UNCHANGED <<Alive, Halted>>
            /\ \E k \in 1..MaxBurst : /\ to' = to \o [i \in 1..k |-> s]
                                      /\ Place' = Place \o [i \in 1..k |-> "moving"]
            => PipeStep
<1>1. DOMAIN Place = 1..Len(to) /\ DOMAIN to = 1..Len(to) /\ Place = [n \in 1..Len(to) |-> Place[n]]
  BY DEF Placed
<1>2. UNCHANGED <<to, Place, Alive, Halted>> => PipeStep
  BY DEF PipeStep, Pipe!vars
<1>3. ASSUME NEW from, NEW dest, Goes(s, from, dest, N)
      PROVE  (N = {} => Place' = Place) /\ (N # {} => Pipe!Move(s, from, dest))
  <2>1. CASE N = {}
    BY <1>1, <1>3, <2>1 DEF Goes
  <2>2. CASE N # {}
    BY <1>1, <1>3, <2>2 DEF Goes, Pipe!Move, Pipe!Mine
  <2>. QED  BY <2>1, <2>2
<1>4. \A from, dest : Goes(s, from, dest, N) => UNCHANGED to
  BY DEF Goes
<1>5. Goes(s, "moving", "delivered", N) /\ UNCHANGED <<Alive, Halted>> => PipeStep
  BY <1>2, <1>3, <1>4 DEF PipeStep, Pipe!Next, Pipe!Deliver
<1>6. Goes(s, "moving", "retained", N) /\ UNCHANGED <<Alive, Halted>> => PipeStep
  BY <1>2, <1>3, <1>4 DEF PipeStep, Pipe!Next, Pipe!Retain
<1>7. s \in Halted /\ Goes(s, "moving", "parked", N) /\ UNCHANGED <<Alive, Halted>> => PipeStep
  BY <1>2, <1>3, <1>4 DEF PipeStep, Pipe!Next, Pipe!Park
<1>8. s \notin Alive /\ Goes(s, "moving", "dropped", N) /\ UNCHANGED <<Alive, Halted>> => PipeStep
  BY <1>2, <1>3, <1>4 DEF PipeStep, Pipe!Next, Pipe!Drop
<1>9. ASSUME Goes(s, "moving", "moving", N), UNCHANGED <<Alive, Halted>> PROVE PipeStep
  <2>1. Place' = Place
    BY <1>1, <1>9 DEF Goes
  <2>. QED  BY <1>2, <1>4, <1>9, <2>1
<1>10. ASSUME Goes(s, "retained", "moving", N), UNCHANGED <<Alive, Halted>>,
              {n \in 1..Len(to) : to[n] = s /\ Place[n] = "retained"} \subseteq N
       PROVE  PipeStep
  <2>1. N = {n \in 1..Len(to) : to[n] = s /\ Place[n] = "retained"}
    BY <1>10 DEF Goes
  <2>2. \A n \in 1..Len(to) : n \in N <=> (n \in Pipe!Mine(s) /\ Place[n] = "retained")
    BY <1>1, <2>1 DEF Pipe!Mine
  <2>3. Place' = [n \in 1..Len(to) |-> IF n \in N THEN "moving" ELSE Place[n]]
    BY <1>10 DEF Goes
  <2>4. Place' = [n \in DOMAIN Place |->
                    IF n \in Pipe!Mine(s) /\ Place[n] = "retained" THEN "moving" ELSE Place[n]]
    BY <1>1, <2>2, <2>3
  <2>5. Pipe!Redeliver(s)
    BY <1>4, <1>10, <2>4 DEF Pipe!Redeliver
  <2>. QED  BY <2>5 DEF PipeStep, Pipe!Next
<1>11. ASSUME Goes(s, "parked", "moving", N), UNCHANGED Alive, Halted' = Halted \ {s},
              {n \in 1..Len(to) : to[n] = s /\ Place[n] = "parked"} \subseteq N
       PROVE  PipeStep
  <2>1. N = {n \in 1..Len(to) : to[n] = s /\ Place[n] = "parked"}
    BY <1>11 DEF Goes
  <2>2. \A n \in 1..Len(to) : n \in N <=> (n \in Pipe!Mine(s) /\ Place[n] = "parked")
    BY <1>1, <2>1 DEF Pipe!Mine
  <2>3. Place' = [n \in 1..Len(to) |-> IF n \in N THEN "moving" ELSE Place[n]]
    BY <1>11 DEF Goes
  <2>4. Place' = [n \in DOMAIN Place |->
                    IF n \in Pipe!Mine(s) /\ Place[n] = "parked" THEN "moving" ELSE Place[n]]
    BY <1>1, <2>2, <2>3
  <2>5. Pipe!Resume(s)
    BY <1>4, <1>11, <2>4 DEF Pipe!Resume
  <2>. QED  BY <2>5 DEF PipeStep, Pipe!Next
<1>12. UNCHANGED <<to, Place, Halted>> /\ Alive' = Alive \ {s} => PipeStep
  BY DEF PipeStep, Pipe!Next, Pipe!Delete
<1>13. UNCHANGED <<to, Place, Alive>> /\ Halted' = Halted \cup {s} => PipeStep
  BY DEF PipeStep, Pipe!Next, Pipe!Pause
<1>14. /\ s \in Alive /\ UNCHANGED <<Alive, Halted>>
       /\ \E k \in 1..MaxBurst : /\ to' = to \o [i \in 1..k |-> s]
                                 /\ Place' = Place \o [i \in 1..k |-> "moving"]
       => PipeStep
  BY DEF PipeStep, Pipe!Next, Pipe!Produce
<1>. QED  BY <1>2, <1>5, <1>6, <1>7, <1>8, <1>9, <1>10, <1>11, <1>12, <1>13, <1>14

\* Every step of the dispatcher is one of the pipe's, or none.
LEMMA TrafficInPipe ==
  ASSUME Standing, [Next]_vars
  PROVE  PipeStep
<1>0. Traffic /\ Placed /\ Ground
  BY StepsAreTraffic DEF Standing
<1>1. Same => UNCHANGED <<Alive, Halted>>
  BY DEF Same, Alive, Halted
<1>2. ASSUME NEW p \in Procs, NEW s \in Subs
      PROVE  /\ Here[HandOf(p)] = "moving" /\ Here[QueueOf(s)] = "moving"
             /\ Here[PendingOf(s)] = "retained" /\ Here[QueuedOf(s)] = "parked"
             /\ Owner[HandOf(p)] \in Subs
             /\ Owner[QueueOf(s)] = s /\ Owner[PendingOf(s)] = s /\ Owner[QueuedOf(s)] = s
  <2>1. proc[p].sub \in Subs
    BY <1>0, Hand DEF Ground
  <2>. QED  BY <1>0, <2>1, HereIs DEF Ground, Boxed
<1>3. \A h, k, a : Pass(h, k, a) => Goes(Owner[h], Here[h], Here[k], Range(a))
  BY PassGoes
\* Everything of s that is in a place of this kind is in the table of s.
<1>4. ASSUME NEW s \in Subs
      PROVE  /\ {n \in 1..Len(to) : to[n] = s /\ Place[n] = "retained"}
                  \subseteq Range(Content[PendingOf(s)])
             /\ {n \in 1..Len(to) : to[n] = s /\ Place[n] = "parked"}
                  \subseteq Range(Content[QueuedOf(s)])
  <2>1. ASSUME NEW n \in 1..Len(to), to[n] = s, Place[n] \in {"retained", "parked"}
        PROVE  \/ Place[n] = "retained" /\ n \in Range(Content[PendingOf(s)])
               \/ Place[n] = "parked" /\ n \in Range(Content[QueuedOf(s)])
    <3>1. n \notin acked \cup dropped
      BY <1>0, <2>1 DEF Placed
    <3>2. PICK h \in Boxes : n \in Range(Content[h])
      BY <1>0, <3>1 DEF Placed
    <3>3. Place[n] = Here[h] /\ Owner[h] = s
      BY <1>0, <2>1, <3>2 DEF Placed, Standing, Aimed
    <3>4. CASE \E t \in Subs : h \in {QueueOf(t), PendingOf(t), QueuedOf(t)}
      <4>1. PICK t \in Subs : h \in {QueueOf(t), PendingOf(t), QueuedOf(t)}
        BY <3>4
      <4>2. /\ Owner[QueueOf(t)] = t /\ Owner[PendingOf(t)] = t /\ Owner[QueuedOf(t)] = t
            /\ Here[QueueOf(t)] = "moving" /\ Here[PendingOf(t)] = "retained"
            /\ Here[QueuedOf(t)] = "parked"
        BY <1>0, HereIs DEF Ground, Boxed
      <4>. QED  BY <2>1, <3>2, <3>3, <4>1, <4>2
    <3>5. CASE \E p \in Procs : h = HandOf(p)
      BY <2>1, <3>3, <3>5, HereIs
    <3>. QED  BY <3>4, <3>5, BoxesAre
  <2>. QED  BY <2>1
<1>5. Comes => PipeStep
  <2>1. ASSUME NEW p \in Procs, NEW s \in Subs, NEW k, Exists(s), Come(HandOf(p), s, k), Same
        PROVE  PipeStep
    <3>1. s \in Alive
      BY <2>1 DEF Alive
    <3>2. /\ k \in 1..MaxBurst /\ to' = to \o [i \in 1..k |-> s]
          /\ Place' = Place \o [i \in 1..k |-> "moving"]
      BY <2>1, ComeGoes
    <3>. QED  BY <1>0, <1>1, <2>1, <3>1, <3>2, PipeSteps
  <2>. QED  BY <2>1 DEF Comes
<1>6. ASSUME NEW p \in Procs, NEW s \in Subs, NEW a, Same,
             \/ Pass(HandOf(p), QueueOf(s), a) \/ Pass(QueueOf(s), HandOf(p), a)
      PROVE  PipeStep
  <2>1. \E t \in Subs : Goes(t, "moving", "moving", Range(a))
    BY <1>2, <1>3, <1>6
  <2>. QED  BY <1>0, <1>1, <1>6, <2>1, PipeSteps
<1>7. ASSUME NEW p \in Procs, NEW s \in Subs, NEW a, Same, paused[s],
             Pass(HandOf(p), QueuedOf(s), a)
      PROVE  PipeStep
  <2>1. Goes(Owner[HandOf(p)], "moving", "parked", Range(a))
    BY <1>2, <1>3, <1>7
  <2>2. Range(a) # {} => Owner[HandOf(p)] = s
    <3>1. ASSUME NEW n \in Range(a) PROVE Owner[HandOf(p)] = s
      <4>1. PICK R : /\ Range(Content'[QueuedOf(s)]) = Range(Content[QueuedOf(s)]) \cup Range(a)
                     /\ \A x \in Range(a) : Owner'[QueuedOf(s)] = Owner[HandOf(p)]
        BY <1>0, <1>7, PassRanges
      <4>2. Owner'[QueuedOf(s)] = s
        BY <1>0 DEF Ground, Boxed
      <4>. QED  BY <4>1, <4>2
    <3>. QED  BY <3>1
  <2>3. CASE Range(a) # {}
    <3>1. s \in Halted
      BY <1>7 DEF Halted
    <3>. QED  BY <1>0, <1>1, <1>7, <2>1, <2>2, <2>3, <3>1, PipeSteps
  <2>4. CASE Range(a) = {}
    <3>1. Goes(s, "moving", "moving", {})
      BY <2>1, <2>4 DEF Goes
    <3>. QED  BY <1>0, <1>1, <1>7, <3>1, PipeSteps
  <2>. QED  BY <2>3, <2>4
<1>8. ASSUME NEW p \in Procs, NEW s \in Subs, NEW a, Same, Pass(HandOf(p), PendingOf(s), a)
      PROVE  PipeStep
  <2>1. \E t \in Subs : Goes(t, "moving", "retained", Range(a))
    BY <1>2, <1>3, <1>8
  <2>. QED  BY <1>0, <1>1, <1>8, <2>1, PipeSteps
<1>9. ASSUME NEW p \in Procs, NEW s \in Subs, Same,
             Pass(PendingOf(s), HandOf(p), Content[PendingOf(s)])
      PROVE  PipeStep
  <2>1. Goes(s, "retained", "moving", Range(Content[PendingOf(s)]))
    BY <1>2, <1>3, <1>9
  <2>. QED  BY <1>0, <1>1, <1>4, <1>9, <2>1, PipeSteps
<1>10. Fills => PipeStep
  <2>1. Fills => Place' = Place /\ UNCHANGED to /\ Same
    BY FillGoes DEF Fills
  <2>. QED  BY <1>0, <1>1, <1>2, <2>1, PipeSteps DEF Fills
<1>11. ASSUME NEW p \in Procs, NEW a, Same, End(HandOf(p), a),
              acked' = acked \cup Range(a), UNCHANGED dropped
       PROVE  PipeStep
  <2>1. Goes(Owner[HandOf(p)], "moving", "delivered", Range(a))
    BY <1>2, <1>11, EndGoes, HereIs
  <2>2. Owner[HandOf(p)] \in Subs
    BY <1>0, Hand DEF Ground, Boxed
  <2>. QED  BY <1>0, <1>1, <1>11, <2>1, <2>2, PipeSteps
<1>12. ASSUME NEW p \in Procs, NEW a, Same, End(HandOf(p), a), ~Exists(Owner[HandOf(p)]),
              dropped' = dropped \cup Range(a), UNCHANGED acked
       PROVE  PipeStep
  <2>1. Goes(Owner[HandOf(p)], "moving", "dropped", Range(a))
    BY <1>2, <1>12, EndGoes, HereIs
  <2>2. Owner[HandOf(p)] \in Subs \ Alive
    <3>1. Owner[HandOf(p)] \in Subs
      BY <1>0, Hand DEF Ground, Boxed
    <3>. QED  BY <1>12, <3>1 DEF Alive
  <2>. QED  BY <1>0, <1>1, <1>12, <2>1, <2>2, PipeSteps
<1>13. ASSUME Still PROVE UNCHANGED <<to, Place>>
  BY <1>13, StillGoes
<1>14. ASSUME Ends PROVE PipeStep
  <2>1. PICK s \in Subs : status' = [status EXCEPT ![s] = "deleted"]
    BY <1>14 DEF Ends
  <2>2. Alive' = Alive \ {s} /\ UNCHANGED Halted
    BY <1>0, <1>14, <2>1 DEF Ends, Alive, Halted, Exists, Ground, TypeOK
  <2>. QED  BY <1>0, <1>13, <1>14, <2>2, PipeSteps DEF Ends
<1>15. ASSUME Holds PROVE PipeStep
  <2>1. PICK s \in Subs : paused' = [paused EXCEPT ![s] = TRUE]
    BY <1>15 DEF Holds
  <2>2. Halted' = Halted \cup {s} /\ UNCHANGED Alive
    BY <1>0, <1>15, <2>1 DEF Holds, Alive, Halted, Exists, Ground, TypeOK
  <2>. QED  BY <1>0, <1>13, <1>15, <2>2, PipeSteps DEF Holds
<1>16. ASSUME Releases PROVE PipeStep
  <2>1. PICK p \in Procs, s \in Subs : /\ Pass(QueuedOf(s), HandOf(p), Content[QueuedOf(s)])
                                       /\ paused' = [paused EXCEPT ![s] = FALSE]
    BY <1>16 DEF Releases
  <2>2. Halted' = Halted \ {s} /\ UNCHANGED Alive
    BY <1>0, <1>16, <2>1 DEF Releases, Alive, Halted, Exists, Ground, TypeOK
  <2>3. Goes(s, "parked", "moving", Range(Content[QueuedOf(s)]))
    BY <1>2, <1>3, <2>1
  <2>. QED  BY <1>0, <1>4, <2>2, <2>3, PipeSteps
<1>17. Same /\ Still => PipeStep
  <2>1. \E s \in Subs : TRUE
    BY DispatcherAssumption
  <2>. QED  BY <1>0, <1>1, <1>13, <2>1, PipeSteps
<1>18. Queues \/ Flushes => PipeStep
  BY <1>6 DEF Queues, Flushes
<1>19. Parks => PipeStep
  BY <1>7 DEF Parks
<1>20. Keeps => PipeStep
  BY <1>8 DEF Keeps
<1>21. Returns => PipeStep
  BY <1>9 DEF Returns
<1>22. Acks => PipeStep
  BY <1>11 DEF Acks
<1>23. Drops => PipeStep
  BY <1>12 DEF Drops
<1>. QED  BY <1>0, <1>5, <1>10, <1>14, <1>15, <1>16, <1>17, <1>18, <1>19, <1>20, <1>21, <1>22,
             <1>23 DEF Traffic

\* The dispatcher starts with an empty pipe.
LEMMA PipeInit == Init => Pipe!Init /\ Aimed
<1>. SUFFICES ASSUME Init PROVE Pipe!Init /\ Aimed
  OBVIOUS
<1>1. to = <<>> /\ Len(to) = 0 /\ Single
  BY SingleInit DEF Init
<1>2. Place = <<>>
  <2>1. DOMAIN Place = {}
    BY <1>1 DEF Place
  <2>2. \A f : DOMAIN f = {} /\ f = [x \in {} |-> f[x]] => f = <<>>
    OBVIOUS
  <2>. QED  BY <2>1, <2>2 DEF Place
<1>3. Alive = Subs /\ Halted = {}
  BY DEF Init, Alive, Halted, Exists
<1>4. Pipe!Init
  BY <1>1, <1>2, <1>3 DEF Pipe!Init
<1>5. Aimed
  <2>1. \A h \in Boxes : Range(Content[h]) \subseteq Live
    BY <1>1 DEF Single, Apart, Content
  <2>2. Live = {}
    BY <1>1 DEF Live
  <2>. QED  BY <2>1, <2>2 DEF Aimed
<1>. QED  BY <1>4, <1>5

\* Goroutines, batches, timers, retries and pauses together implement a pipe in
\* which a notification moves until it is delivered, retained or parked, and is
\* lost only with its subscription.
THEOREM DispatcherImplementsPipe == Spec => PipeSpec
<1>. DEFINE All == Typed /\ Single /\ AllAccounted
<1>1. All => Placed
  BY AllPlaced DEF Typed
<1>2. All /\ All' /\ Aimed => Standing
  <2>1. All' => Placed'
    BY <1>1, PTL
  <2>2. TypeOK /\ TypeOK' => Boxed /\ Boxed'
    BY TypedBoxed, PTL
  <2>. QED  BY <1>1, <2>1, <2>2 DEF Standing, Ground, Typed
<1>3. Spec => []All
  BY TypedInvariant, SingleInvariant, AccountedInvariant, PTL
<1>4. Spec => []Aimed
  <2>1. All /\ All' /\ Aimed /\ [Next]_vars => Aimed'
    BY <1>2, AimedStep
  <2>. HIDE DEF All
  <2>. QED  BY <1>3, <2>1, PipeInit, PTL DEF Spec
<1>5. All /\ All' /\ Aimed /\ [Next]_vars => PipeStep
  BY <1>2, TrafficInPipe
<1>6. Init => Pipe!Init
  BY PipeInit
<1>. HIDE DEF All
<1>. QED  BY <1>3, <1>4, <1>5, <1>6, PTL DEF Spec, PipeSpec, Pipe!Spec, PipeStep
=============================================================================
