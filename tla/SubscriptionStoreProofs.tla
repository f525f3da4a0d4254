----------------------- MODULE SubscriptionStoreProofs -----------------------
(***************************************************************************)
(* Proofs about SubscriptionStore, for any constants that satisfy          *)
(* StoreAssumption.                                                        *)
(***************************************************************************)
EXTENDS SubscriptionStore, FiniteSetTheorems, TLAPS

(***************************************************************************)
(* Lemmas about the operators                                              *)
(***************************************************************************)

LEMMA IdsFinite == IsFiniteSet(Ids)
<1>1. 1 \in Int /\ MaxIds \in Int
  BY StoreAssumption
<1> QED
  BY <1>1, FS_Interval DEF Ids

\* The place of an event on its subscription's list.
LEMMA PlaceInList ==
  ASSUME NEW mine \in SUBSET Ids, NEW e \in mine
  PROVE  /\ Cardinality(mine) \in Nat
         /\ Cardinality({f \in mine : f <= e}) \in 1..Cardinality(mine)
<1>1. IsFiniteSet(mine)
  BY IdsFinite, FS_Subset
<1>2. /\ IsFiniteSet({f \in mine : f <= e})
      /\ Cardinality({f \in mine : f <= e}) <= Cardinality(mine)
  BY <1>1, FS_Subset
<1>3. e \in {f \in mine : f <= e}
  BY StoreAssumption DEF Ids
<1>4. Cardinality({f \in mine : f <= e}) # 0
  BY <1>2, <1>3, FS_EmptySet
<1> QED
  BY <1>1, <1>2, <1>4, FS_CardinalityType

LEMMA ListFinite ==
  ASSUME NEW mine \in SUBSET Ids
  PROVE  Cardinality(mine) \in Nat
BY IdsFinite, FS_Subset, FS_CardinalityType

\* What the two steps of an update leave of a subscription.
LEMMA FieldsUpdated ==
  ASSUME NEW sub \in Subscription, NEW p \in UpdateParams
  PROVE  /\ Moved(sub, p) \in Subscription
         /\ p.key # Invalid => Addressed(sub, p) \in Subscription
         /\ Invalid \notin {p.key, p.limit} => Limited(sub, p) \in Subscription
         /\ \A t \in {Moved(sub, p), Addressed(sub, p)} :
              /\ t.limit = sub.limit /\ t.active = sub.active
              /\ t.events = sub.events /\ t.version = sub.version
         /\ \A t \in {Moved(sub, p), Addressed(sub, p), Limited(sub, p)} :
              t.active = sub.active /\ t.endpoint = Given(sub.endpoint, p.endpoint)
<1>1. /\ Given(sub.endpoint, p.endpoint) \in Endpoints
      /\ p.key # Invalid => Given(sub.key, p.key) \in Keys
      /\ Given(sub.email, p.email) \in Emails
      /\ p.limit # Invalid => Given(sub.limit, p.limit) \in Limits
  BY DEF Given, Subscription, UpdateParams
<1>2. PICK x, k, m, l : /\ x = Given(sub.endpoint, p.endpoint) /\ k = Given(sub.key, p.key)
                       /\ m = Given(sub.email, p.email) /\ l = Given(sub.limit, p.limit)
  OBVIOUS
<1>3. Moved(sub, p) = [sub EXCEPT !.endpoint = x]
  BY <1>2 DEF Moved
<1>4. Addressed(sub, p) = [sub EXCEPT !.endpoint = x, !.key = k, !.email = m]
  BY <1>2, <1>3 DEF Addressed, Subscription
<1>5. Limited(sub, p) = [sub EXCEPT !.endpoint = x, !.key = k, !.email = m, !.limit = l]
  BY <1>2, <1>4 DEF Limited, Subscription
<1>6. Moved(sub, p) \in Subscription
  BY <1>1, <1>2, <1>3 DEF Subscription
<1>7. p.key # Invalid => Addressed(sub, p) \in Subscription
  BY <1>1, <1>2, <1>4 DEF Subscription
<1>8. Invalid \notin {p.key, p.limit} => Limited(sub, p) \in Subscription
  BY <1>1, <1>2, <1>5 DEF Subscription
<1>9. \A t \in {Moved(sub, p), Addressed(sub, p)} :
        /\ t.limit = sub.limit /\ t.active = sub.active
        /\ t.events = sub.events /\ t.version = sub.version
  BY <1>3, <1>4, ZenonT(40) DEF Subscription
<1>10. \A t \in {Moved(sub, p), Addressed(sub, p), Limited(sub, p)} :
         t.active = sub.active /\ t.endpoint = Given(sub.endpoint, p.endpoint)
  <2>1. Moved(sub, p).active = sub.active /\ Moved(sub, p).endpoint = x
    BY <1>3 DEF Subscription
  <2>2. Addressed(sub, p).active = sub.active /\ Addressed(sub, p).endpoint = x
    BY <1>4 DEF Subscription
  <2>3. Limited(sub, p).active = sub.active /\ Limited(sub, p).endpoint = x
    BY <1>5 DEF Subscription
  <2> QED
    BY <1>2, <2>1, <2>2, <2>3
<1> QED
  BY <1>6, <1>7, <1>8, <1>9, <1>10

(***************************************************************************)
(* What each action does to a record                                       *)
(***************************************************************************)

\* Switch changes the status and version of a subscription and its events.
LEMMA SwitchIs ==
  ASSUME TypeOK, NEW s \in DOMAIN subs, NEW on \in BOOLEAN, Switch(s, on)
  PROVE  /\ rowSeq' \in 0..MaxRows /\ rowSeq' > rowSeq
         /\ UNCHANGED <<idSeq, seenSub, seenEv>>
         /\ DOMAIN subs' = DOMAIN subs /\ DOMAIN events' = DOMAIN events
         /\ \A t \in DOMAIN subs \ {s} : subs'[t] = subs[t]
         /\ subs'[s] \in Subscription /\ subs'[s].version \in rowSeq + 1..rowSeq'
         /\ subs'[s].events = subs[s].events /\ subs'[s].limit = subs[s].limit
         /\ subs'[s].endpoint = subs[s].endpoint /\ subs'[s].active = on
         /\ \A e \in DOMAIN events \ subs[s].events : events'[e] = events[e]
         /\ \A e \in DOMAIN events \cap subs[s].events :
              /\ events'[e] \in SubscriptionEvent
              /\ events'[e].version \in rowSeq + 1..rowSeq'
              /\ events'[e].sub = events[e].sub /\ events'[e].targets = events[e].targets
              /\ events'[e].active = on
<1> DEFINE mine == subs[s].events
           place(e) == Cardinality({f \in mine : f <= e})
<1>1. /\ mine \in SUBSET Ids /\ subs[s] \in Subscription
      /\ rowSeq \in 0..MaxRows
      /\ \A e \in DOMAIN events : events[e] \in SubscriptionEvent
  BY DEF TypeOK, Subscription
<1>2. PICK n \in Nat : n = Cardinality(mine)
  BY <1>1, ListFinite
<1>3. \A e \in mine : place(e) \in 1..n
  BY <1>1, <1>2, PlaceInList
<1>4. rowSeq' = rowSeq + n + 1 /\ rowSeq' <= MaxRows
  <2>1. Mint(Cardinality(subs[s].events) + 1)
    BY DEF Switch
  <2>2. Mint(n + 1)
    BY <1>2, <2>1
  <2> QED
    BY <1>1, <1>2, <2>2 DEF Mint
<1>5. /\ subs' = [subs EXCEPT ![s].active = on, ![s].version = rowSeq + n + 1]
      /\ UNCHANGED <<idSeq, seenSub, seenEv>>
  BY <1>2 DEF Switch, seen
<1>6. events' = [e \in DOMAIN events |->
                  IF e \in mine
                  THEN [events[e] EXCEPT !.active = on, !.version = rowSeq + place(e)]
                  ELSE events[e]]
  BY DEF Switch
<1>7. rowSeq + n + 1 \in Versions
  BY <1>1, <1>4, StoreAssumption DEF Versions
<1>8. subs'[s] = [subs[s] EXCEPT !.active = on, !.version = rowSeq + n + 1]
  BY <1>5
<1>9. /\ DOMAIN subs' = DOMAIN subs
      /\ \A t \in DOMAIN subs \ {s} : subs'[t] = subs[t]
  BY <1>5
<1>10. /\ subs'[s] \in Subscription /\ subs'[s].version = rowSeq + n + 1
       /\ subs'[s].events = subs[s].events /\ subs'[s].limit = subs[s].limit
       /\ subs'[s].endpoint = subs[s].endpoint /\ subs'[s].active = on
  BY <1>1, <1>7, <1>8 DEF Subscription
<1>11. ASSUME NEW e \in DOMAIN events \cap mine
       PROVE  /\ events'[e] \in SubscriptionEvent
              /\ events'[e].version \in rowSeq + 1..rowSeq'
              /\ events'[e].sub = events[e].sub /\ events'[e].targets = events[e].targets
              /\ events'[e].active = on
  <2>1. PICK k \in 1..n : k = place(e)
    BY <1>3
  <2>2. events'[e] = [events[e] EXCEPT !.active = on, !.version = rowSeq + k]
    BY <1>6, <2>1
  <2> HIDE DEF mine, place
  <2>3. rowSeq + k \in Versions /\ rowSeq + k \in rowSeq + 1..rowSeq'
    BY <1>1, <1>2, <1>4, <2>1, StoreAssumption DEF Versions
  <2> QED
    BY <1>1, <2>2, <2>3 DEF SubscriptionEvent
<1>12. /\ DOMAIN events' = DOMAIN events
       /\ \A e \in DOMAIN events \ mine : events'[e] = events[e]
  BY <1>6
<1> HIDE DEF place
<1> QED
  BY <1>1, <1>2, <1>4, <1>5, <1>9, <1>10, <1>11, <1>12

(***************************************************************************)
(* Type correctness and what was read                                      *)
(***************************************************************************)

\* A subscription that keeps all a version stands for in this module.
Kept(s) ==
  /\ s \in DOMAIN subs /\ subs'[s] \in Subscription
  /\ subs'[s].version = subs[s].version /\ subs'[s].active = subs[s].active
  /\ subs'[s].limit = subs[s].limit /\ subs'[s].events = subs[s].events

\* The shape of every step but a read: what is new or changed carries a
\* version minted in the step, and ids are not used again.
Versioned ==
  /\ rowSeq' \in 0..MaxRows /\ rowSeq <= rowSeq'
  /\ idSeq' \in 0..MaxIds /\ idSeq <= idSeq'
  /\ \A s \in DOMAIN subs' :
       \/ Kept(s)
       \/ /\ s \in DOMAIN subs \cup (idSeq + 1..idSeq') /\ subs'[s] \in Subscription
          /\ subs'[s].version \in rowSeq + 1..rowSeq'
  /\ \A e \in DOMAIN events' :
       \/ e \in DOMAIN events /\ events'[e] = events[e]
       \/ /\ e \in DOMAIN events \cup (idSeq + 1..idSeq') /\ events'[e] \in SubscriptionEvent
          /\ events'[e].version \in rowSeq + 1..rowSeq'
  /\ UNCHANGED <<seenSub, seenEv>>

LEMMA Counters ==
  ASSUME TypeOK
  PROVE  /\ rowSeq \in Nat /\ idSeq \in Nat /\ rowSeq <= MaxRows /\ idSeq <= MaxIds
         /\ MaxRows \in Nat /\ MaxIds \in Nat
BY StoreAssumption DEF TypeOK

LEMMA KeptIfSame ==
  ASSUME TypeOK, NEW s \in DOMAIN subs, subs'[s] = subs[s]
  PROVE  Kept(s)
BY DEF TypeOK, Kept

LEMMA CreateVersioned ==
  ASSUME TypeOK, NEW x \in Endpoints, NEW k \in Keys, NEW m \in Emails,
         NEW l \in Limits, NEW on \in BOOLEAN, Create(x, k, m, l, on)
  PROVE  Versioned
<1> DEFINE new == [endpoint |-> x, key |-> k, email |-> m, limit |-> l,
                   active |-> on, events |-> {}, version |-> rowSeq + 1]
<1>1. /\ idSeq' = idSeq + 1 /\ idSeq < MaxIds /\ rowSeq' = rowSeq + 1 /\ rowSeq' <= MaxRows
      /\ subs' = Put(subs, idSeq + 1, new) /\ UNCHANGED <<events, seenSub, seenEv>>
  BY DEF Create, Mint, seen
<1>2. new \in Subscription /\ new.version = rowSeq + 1
  BY <1>1, Counters DEF Subscription, Versions
<1> HIDE DEF new
<1>3. /\ DOMAIN subs' = DOMAIN subs \cup {idSeq + 1} /\ subs'[idSeq + 1] = new
      /\ \A y \in DOMAIN subs : y # idSeq + 1 => subs'[y] = subs[y]
  BY <1>1 DEF Put
<1>4. \A s \in DOMAIN subs : s # idSeq + 1 => Kept(s)
  BY <1>3, KeptIfSame
<1> QED
  BY <1>1, <1>2, <1>3, <1>4, Counters DEF Versioned

LEMMA UpdateVersioned ==
  ASSUME TypeOK, NEW c \in Clients, NEW s \in DOMAIN subs, NEW p \in UpdateParams,
         Update(c, s, p) \/ UpdateRefused(c, s, p)
  PROVE  Versioned
<1>1. subs[s] \in Subscription
  BY DEF TypeOK
<1>2. CASE Update(c, s, p)
  <2>1. PICK sub : sub = Limited(subs[s], p)
    OBVIOUS
  <2>2. sub \in Subscription
    BY <1>1, <1>2, <2>1, FieldsUpdated DEF Update
  <2>3. /\ subs' = [subs EXCEPT ![s] = [sub EXCEPT !.version = rowSeq + 1]]
        /\ rowSeq' = rowSeq + 1 /\ rowSeq' <= MaxRows
        /\ UNCHANGED <<events, idSeq, seenSub, seenEv>>
    BY <1>2, <2>1 DEF Update, Mint, seen
  <2>5. rowSeq + 1 \in Versions
    BY <2>3, Counters DEF Versions
  <2>6. subs'[s] = [sub EXCEPT !.version = rowSeq + 1]
    BY <2>3
  <2>7. subs'[s] \in Subscription /\ subs'[s].version = rowSeq + 1
    BY <2>2, <2>5, <2>6 DEF Subscription
  <2>8. DOMAIN subs' = DOMAIN subs /\ \A t \in DOMAIN subs : t # s => subs'[t] = subs[t]
    BY <2>3
  <2>9. \A t \in DOMAIN subs : t # s => Kept(t)
    BY <2>8, KeptIfSame
  <2> QED
    BY <2>3, <2>7, <2>8, <2>9, Counters, StoreAssumption DEF Versioned, TypeOK
<1>3. CASE UpdateRefused(c, s, p)
  <2>1. /\ UNCHANGED <<events, idSeq, rowSeq, seenSub, seenEv>>
        /\ \/ subs' = [subs EXCEPT ![s] = Moved(subs[s], p)]
           \/ p.key # Invalid /\ subs' = [subs EXCEPT ![s] = Addressed(subs[s], p)]
    BY <1>3 DEF UpdateRefused, seen
  <2>2. DOMAIN subs' = DOMAIN subs /\ \A t \in DOMAIN subs : t # s => subs'[t] = subs[t]
    BY <2>1
  <2>3. subs'[s] = Moved(subs[s], p) \/ (p.key # Invalid /\ subs'[s] = Addressed(subs[s], p))
    BY <2>1
  <2>4. Kept(s)
    BY <1>1, <2>3, FieldsUpdated DEF Kept
  <2>5. \A t \in DOMAIN subs : Kept(t)
    BY <2>2, <2>4, KeptIfSame
  <2> QED
    BY <2>1, <2>2, <2>5, Counters DEF Versioned
<1> QED
  BY <1>2, <1>3

LEMMA SwitchVersioned ==
  ASSUME TypeOK, NEW s \in DOMAIN subs, NEW on \in BOOLEAN, Switch(s, on)
  PROVE  Versioned
<1>1. \A t \in DOMAIN subs : t # s => Kept(t)
  BY SwitchIs, KeptIfSame
<1> QED
  BY <1>1, SwitchIs, Counters DEF Versioned

LEMMA DeleteVersioned ==
  ASSUME TypeOK, NEW c \in Clients, NEW s \in DOMAIN subs, Delete(c, s)
  PROVE  Versioned
<1>1. /\ subs' = Without(subs, {s}) /\ events' = Without(events, subs[s].events)
      /\ UNCHANGED <<idSeq, rowSeq, seenSub, seenEv>>
  BY DEF Delete, seen
<1>2. /\ DOMAIN subs' = DOMAIN subs \ {s}
      /\ \A t \in DOMAIN subs' : t \in DOMAIN subs /\ subs'[t] = subs[t]
      /\ \A e \in DOMAIN events' : e \in DOMAIN events /\ events'[e] = events[e]
  BY <1>1 DEF Without, Restrict
<1>3. \A t \in DOMAIN subs' : Kept(t)
  BY <1>2, KeptIfSame
<1>4. \A e \in DOMAIN events' : e \in DOMAIN events /\ events'[e] = events[e]
  BY <1>2
<1>5. /\ rowSeq' \in 0..MaxRows /\ rowSeq <= rowSeq'
      /\ idSeq' \in 0..MaxIds /\ idSeq <= idSeq'
  BY <1>1, Counters
<1> QED
  BY <1>1, <1>3, <1>4, <1>5 DEF Versioned

LEMMA AddEventVersioned ==
  ASSUME TypeOK, NEW s \in DOMAIN subs, NEW t \in Types, NEW T \in SUBSET Targets,
         AddEvent(s, t, T)
  PROVE  Versioned
<1> DEFINE new == [sub |-> s, type |-> t, active |-> subs[s].active,
                   targets |-> T, version |-> rowSeq + 1]
<1>1. /\ idSeq' = idSeq + 1 /\ idSeq < MaxIds /\ rowSeq' = rowSeq + 2 /\ rowSeq' <= MaxRows
      /\ events' = Put(events, idSeq + 1, new) /\ UNCHANGED <<seenSub, seenEv>>
      /\ subs' = [subs EXCEPT ![s].events = @ \cup {idSeq + 1}, ![s].version = rowSeq + 2]
  BY DEF AddEvent, Mint, seen
<1>2. subs[s] \in Subscription /\ s \in Ids
  BY Counters DEF TypeOK, Ids
<1>3. rowSeq + 1 \in Versions /\ rowSeq + 2 \in Versions /\ idSeq + 1 \in Ids
  BY <1>1, Counters DEF Versions, Ids
<1>4. new \in SubscriptionEvent /\ new.version = rowSeq + 1
  BY <1>2, <1>3 DEF SubscriptionEvent, Subscription
<1> HIDE DEF new
<1>5. /\ DOMAIN events' = DOMAIN events \cup {idSeq + 1} /\ events'[idSeq + 1] = new
      /\ \A y \in DOMAIN events : y # idSeq + 1 => events'[y] = events[y]
  BY <1>1 DEF Put
<1>6. /\ DOMAIN subs' = DOMAIN subs /\ \A y \in DOMAIN subs : y # s => subs'[y] = subs[y]
      /\ subs'[s] = [subs[s] EXCEPT !.events = @ \cup {idSeq + 1}, !.version = rowSeq + 2]
  BY <1>1
<1>7. subs'[s] \in Subscription /\ subs'[s].version = rowSeq + 2
  <2>1. subs[s].events \cup {idSeq + 1} \in SUBSET Ids
    BY <1>2, <1>3 DEF Subscription
  <2> DEFINE listed == subs[s].events \cup {idSeq + 1}
             minted == rowSeq + 2
  <2>2. subs'[s] = [subs[s] EXCEPT !.events = listed, !.version = minted]
    BY <1>6
  <2>3. listed \in SUBSET Ids /\ minted \in Versions
    BY <2>1, <1>3
  <2> HIDE DEF listed, minted
  <2>4. subs'[s] \in Subscription /\ subs'[s].version = minted
    BY <1>2, <2>2, <2>3 DEF Subscription
  <2> QED
    BY <2>4 DEF minted
<1>8. \A y \in DOMAIN subs : y # s => Kept(y)
  BY <1>6, KeptIfSame
<1>9. rowSeq + 2 \in rowSeq + 1..rowSeq' /\ rowSeq + 1 \in rowSeq + 1..rowSeq'
  BY <1>1, Counters
<1>10. /\ rowSeq' \in 0..MaxRows /\ rowSeq <= rowSeq'
       /\ idSeq' \in 0..MaxIds /\ idSeq <= idSeq' /\ idSeq + 1 \in idSeq + 1..idSeq'
  BY <1>1, Counters
<1> QED
  BY <1>1, <1>4, <1>5, <1>6, <1>7, <1>8, <1>9, <1>10 DEF Versioned

LEMMA ReplaceVersioned ==
  ASSUME TypeOK, NEW c \in Clients, NEW e \in DOMAIN events, NEW T \in SUBSET Targets,
         ReplaceTargets(c, e, T)
  PROVE  Versioned
<1>1. /\ events' = [events EXCEPT ![e].targets = T, ![e].version = rowSeq + 1]
      /\ rowSeq' = rowSeq + 1 /\ rowSeq' <= MaxRows
      /\ UNCHANGED <<subs, idSeq, seenSub, seenEv>>
  BY DEF ReplaceTargets, Mint, seen
<1>2. events[e] \in SubscriptionEvent /\ rowSeq + 1 \in Versions
  BY <1>1, Counters DEF TypeOK, Versions
<1>3. /\ DOMAIN events' = DOMAIN events /\ \A y \in DOMAIN events : y # e => events'[y] = events[y]
      /\ events'[e] = [events[e] EXCEPT !.targets = T, !.version = rowSeq + 1]
  BY <1>1
<1>4. events'[e] \in SubscriptionEvent /\ events'[e].version = rowSeq + 1
  BY <1>2, <1>3 DEF SubscriptionEvent
<1>5. \A y \in DOMAIN subs : Kept(y)
  BY <1>1, KeptIfSame
<1> QED
  BY <1>1, <1>3, <1>4, <1>5, Counters DEF Versioned

LEMMA DeleteEventVersioned ==
  ASSUME TypeOK, NEW c \in Clients, NEW e \in DOMAIN events, DeleteEvent(c, e)
  PROVE  Versioned
<1>1. events' = Without(events, {e}) /\ UNCHANGED <<idSeq, seenSub, seenEv>>
  BY DEF DeleteEvent, seen
<1>2. \A y \in DOMAIN events' : y \in DOMAIN events /\ events'[y] = events[y]
  BY <1>1 DEF Without, Restrict
<1>3. PICK s : s = events[e].sub
  OBVIOUS
<1>4. CASE s \in DOMAIN subs
  <2>1. /\ subs' = [subs EXCEPT ![s].events = @ \ {e}, ![s].version = rowSeq + 1]
        /\ rowSeq' = rowSeq + 1 /\ rowSeq' <= MaxRows
    BY <1>3, <1>4 DEF DeleteEvent, Mint
  <2>2. subs[s] \in Subscription /\ rowSeq + 1 \in Versions
    BY <1>4, <2>1, Counters DEF TypeOK, Versions
  <2>3. /\ DOMAIN subs' = DOMAIN subs /\ \A y \in DOMAIN subs : y # s => subs'[y] = subs[y]
        /\ subs'[s] = [subs[s] EXCEPT !.events = @ \ {e}, !.version = rowSeq + 1]
    BY <1>4, <2>1
  <2>4. subs'[s] \in Subscription /\ subs'[s].version = rowSeq + 1
    BY <2>2, <2>3 DEF Subscription
  <2>5. \A y \in DOMAIN subs : y # s => Kept(y)
    BY <2>3, KeptIfSame
  <2>6. /\ rowSeq' \in 0..MaxRows /\ rowSeq <= rowSeq' /\ rowSeq + 1 \in rowSeq + 1..rowSeq'
        /\ idSeq' \in 0..MaxIds /\ idSeq <= idSeq'
    BY <1>1, <2>1, Counters
  <2> QED
    BY <1>1, <1>2, <1>4, <2>3, <2>4, <2>5, <2>6 DEF Versioned
<1>5. CASE s \notin DOMAIN subs
  <2>1. UNCHANGED <<subs, rowSeq>>
    BY <1>3, <1>5 DEF DeleteEvent
  <2>2. \A y \in DOMAIN subs : Kept(y)
    BY <2>1, KeptIfSame
  <2> QED
    BY <1>1, <1>2, <2>1, <2>2, Counters DEF Versioned
<1> QED
  BY <1>4, <1>5

\* Every step is a read or gives what it changes a new version.
LEMMA StepVersioned ==
  ASSUME TypeOK, Next
  PROVE  Versioned \/ \E c \in Clients, s \in DOMAIN subs : Read(c, s)
<1>1. CASE Anyone
  <2>1. ASSUME NEW s \in DOMAIN subs, Deactivate(s)  PROVE Versioned
    BY <2>1, SwitchVersioned DEF Deactivate
  <2> QED
    BY <1>1, <2>1, CreateVersioned, AddEventVersioned DEF Anyone
<1>2. ASSUME NEW c \in Clients, Client(c)
      PROVE  Versioned \/ \E s \in DOMAIN subs : Read(c, s)
  <2>1. ASSUME NEW s \in DOMAIN subs, NEW on \in BOOLEAN, SetActive(c, s, on)  PROVE Versioned
    BY <2>1, SwitchVersioned DEF SetActive
  <2> QED
    BY <1>2, <2>1, UpdateVersioned, DeleteVersioned, DeleteEventVersioned, ReplaceVersioned
    DEF Client
<1> QED
  BY <1>1, <1>2 DEF Next

\* A number that was in use is below the next one.
LEMMA CountersGrow ==
  ASSUME TypeOK, Versioned
  PROVE  /\ rowSeq' \in 0..MaxRows /\ idSeq' \in 0..MaxIds
         /\ \A v \in Nat : v <= rowSeq => v <= rowSeq'
         /\ \A i \in Nat : i <= idSeq => i <= idSeq'
         /\ \A v \in rowSeq + 1..rowSeq' : v \in Nat /\ v <= rowSeq'
         /\ \A i \in idSeq + 1..idSeq' : i \in 1..idSeq'
         /\ \A i \in 1..idSeq : i \in 1..idSeq'
BY Counters DEF Versioned

LEMMA TypeStep ==
  ASSUME TypeOK, IndexAgrees, [Next]_vars
  PROVE  TypeOK'
<1>1. CASE Versioned
  <2>1. ASSUME NEW s \in DOMAIN subs'
        PROVE  subs'[s] \in Subscription /\ subs'[s].version <= rowSeq' /\ s \in 1..idSeq'
    <3>1. CASE Kept(s)
      <4>1. /\ s \in 1..idSeq /\ subs[s].version \in Nat /\ subs[s].version <= rowSeq
            /\ subs'[s].version = subs[s].version /\ subs'[s] \in Subscription
        BY <3>1 DEF Kept, TypeOK, Subscription, Versions
      <4> QED
        BY <1>1, <4>1, CountersGrow
    <3>2. CASE ~Kept(s)
      <4>1. /\ s \in 1..idSeq \/ s \in idSeq + 1..idSeq'
            /\ subs'[s] \in Subscription /\ subs'[s].version \in rowSeq + 1..rowSeq'
        BY <1>1, <3>2 DEF Versioned, TypeOK
      <4> QED
        BY <1>1, <4>1, CountersGrow
    <3> QED
      BY <3>1, <3>2
  <2>2. ASSUME NEW e \in DOMAIN events'
        PROVE  events'[e] \in SubscriptionEvent /\ events'[e].version <= rowSeq' /\ e \in 1..idSeq'
    <3>1. CASE e \in DOMAIN events /\ events'[e] = events[e]
      <4>1. /\ e \in 1..idSeq /\ events[e].version \in Nat /\ events[e].version <= rowSeq
            /\ events'[e].version = events[e].version /\ events'[e] \in SubscriptionEvent
        BY <3>1 DEF TypeOK, SubscriptionEvent, Versions
      <4> QED
        BY <1>1, <4>1, CountersGrow
    <3>2. CASE ~(e \in DOMAIN events /\ events'[e] = events[e])
      <4>1. /\ e \in 1..idSeq \/ e \in idSeq + 1..idSeq'
            /\ events'[e] \in SubscriptionEvent /\ events'[e].version \in rowSeq + 1..rowSeq'
        BY <1>1, <3>2 DEF Versioned, TypeOK
      <4> QED
        BY <1>1, <4>1, CountersGrow
    <3> QED
      BY <3>1, <3>2
  <2>3. seenSub' = seenSub /\ seenEv' = seenEv
    BY <1>1 DEF Versioned
  <2>4. ASSUME NEW c \in Clients, NEW s \in DOMAIN seenSub[c]
        PROVE  s \in 1..idSeq' /\ seenSub[c][s] \in Subscription /\ seenSub[c][s].version <= rowSeq'
    <3>1. /\ s \in 1..idSeq /\ seenSub[c][s] \in Subscription
          /\ seenSub[c][s].version \in Nat /\ seenSub[c][s].version <= rowSeq
      BY DEF TypeOK, Subscription, Versions
    <3> QED
      BY <1>1, <3>1, CountersGrow
  <2>5. ASSUME NEW c \in Clients, NEW e \in DOMAIN seenEv[c]
        PROVE  e \in 1..idSeq' /\ seenEv[c][e] \in SubscriptionEvent /\ seenEv[c][e].version <= rowSeq'
    <3>1. /\ e \in 1..idSeq /\ seenEv[c][e] \in SubscriptionEvent
          /\ seenEv[c][e].version \in Nat /\ seenEv[c][e].version <= rowSeq
      BY DEF TypeOK, SubscriptionEvent, Versions
    <3> QED
      BY <1>1, <3>1, CountersGrow
  <2> QED
    BY <1>1, <2>1, <2>2, <2>3, <2>4, <2>5, CountersGrow DEF TypeOK
<1>2. ASSUME NEW c \in Clients, NEW s \in DOMAIN subs, Read(c, s)
      PROVE  TypeOK'
  <2>1. /\ seenSub' = [seenSub EXCEPT ![c] = [x \in {s} |-> subs[x]]]
        /\ seenEv' = [seenEv EXCEPT ![c] = [x \in subs[s].events |-> events[x]]]
        /\ UNCHANGED <<subs, events, idSeq, rowSeq>>
    BY <1>2 DEF Read, Restrict, rows
  <2>2. subs[s].events \subseteq DOMAIN events
    BY DEF IndexAgrees
  <2> QED
    BY <2>1, <2>2 DEF TypeOK
<1>3. CASE UNCHANGED vars
  BY <1>3 DEF vars, TypeOK
<1> QED
  BY <1>1, <1>2, <1>3, StepVersioned

\* Every step keeps the index and the lists in agreement.
LEMMA IndexStep ==
  ASSUME TypeOK, IndexAgrees, [Next]_vars
  PROVE  IndexAgrees'
<1>1. \A s \in DOMAIN subs : s \in 1..idSeq
  BY DEF TypeOK
<1>2. \A e \in DOMAIN events : e \in 1..idSeq
  BY DEF TypeOK
<1>3. idSeq + 1 \notin 1..idSeq
  BY Counters
<1>4. ASSUME NEW x \in Endpoints, NEW k \in Keys, NEW m \in Emails,
             NEW l \in Limits, NEW on \in BOOLEAN, Create(x, k, m, l, on)
      PROVE  IndexAgrees'
  BY <1>1, <1>2, <1>3, <1>4 DEF Create, Put, IndexAgrees
<1>5. ASSUME NEW s \in DOMAIN subs, NEW on \in BOOLEAN, Switch(s, on)
      PROVE  IndexAgrees'
  <2>1. /\ DOMAIN subs' = DOMAIN subs /\ DOMAIN events' = DOMAIN events
        /\ \A t \in DOMAIN subs : subs'[t].events = subs[t].events
        /\ \A e \in DOMAIN events : events'[e].sub = events[e].sub
    BY <1>5, SwitchIs
  <2> QED
    BY <2>1 DEF IndexAgrees
<1>6. ASSUME NEW c \in Clients, NEW s \in DOMAIN subs, NEW p \in UpdateParams,
             Update(c, s, p) \/ UpdateRefused(c, s, p)
      PROVE  IndexAgrees'
  <2>1. UNCHANGED events
    BY <1>6 DEF Update, UpdateRefused
  <2>2. subs[s] \in Subscription
    BY DEF TypeOK
  <2>3. PICK t : t \in {Moved(subs[s], p), Addressed(subs[s], p),
                        [Limited(subs[s], p) EXCEPT !.version = rowSeq + 1]}
                 /\ subs' = [subs EXCEPT ![s] = t]
    BY <1>6 DEF Update, UpdateRefused
  <2>4. t.events = subs[s].events
    BY <2>2, <2>3, FieldsUpdated DEF Limited, Addressed, Moved, Subscription
  <2> QED
    BY <2>1, <2>3, <2>4 DEF IndexAgrees
<1>7. ASSUME NEW c \in Clients, NEW s \in DOMAIN subs, Delete(c, s)
      PROVE  IndexAgrees'
  BY <1>7 DEF Delete, Without, Restrict, IndexAgrees
<1>8. ASSUME NEW s \in DOMAIN subs, NEW t \in Types, NEW T \in SUBSET Targets,
             AddEvent(s, t, T)
      PROVE  IndexAgrees'
  <2>1. /\ DOMAIN subs' = DOMAIN subs
        /\ \A y \in DOMAIN subs : y # s => subs'[y] = subs[y]
        /\ subs'[s].events = subs[s].events \cup {idSeq + 1}
    BY <1>8 DEF AddEvent, TypeOK, Subscription
  <2>2. /\ DOMAIN events' = DOMAIN events \cup {idSeq + 1}
        /\ events'[idSeq + 1].sub = s
        /\ \A e \in DOMAIN events : e # idSeq + 1 /\ events'[e] = events[e]
    BY <1>2, <1>3, <1>8 DEF AddEvent, Put
  <2> QED
    BY <2>1, <2>2 DEF IndexAgrees
<1>9. ASSUME NEW c \in Clients, NEW e \in DOMAIN events, NEW T \in SUBSET Targets,
             ReplaceTargets(c, e, T)
      PROVE  IndexAgrees'
  <2>1. /\ UNCHANGED subs /\ DOMAIN events' = DOMAIN events
        /\ \A y \in DOMAIN events : events'[y].sub = events[y].sub
    BY <1>9 DEF ReplaceTargets, TypeOK, SubscriptionEvent
  <2> QED
    BY <2>1 DEF IndexAgrees
<1>10. ASSUME NEW c \in Clients, NEW e \in DOMAIN events, DeleteEvent(c, e)
       PROVE  IndexAgrees'
  <2>1. PICK s : s = events[e].sub /\ s \in DOMAIN subs
    BY DEF IndexAgrees
  <2>2. /\ DOMAIN subs' = DOMAIN subs
        /\ \A y \in DOMAIN subs : y # s => subs'[y] = subs[y]
        /\ subs'[s].events = subs[s].events \ {e}
    BY <1>10, <2>1 DEF DeleteEvent, TypeOK, Subscription
  <2>3. /\ DOMAIN events' = DOMAIN events \ {e}
        /\ \A y \in DOMAIN events' : events'[y] = events[y]
    BY <1>10 DEF DeleteEvent, Without, Restrict
  <2> QED
    BY <2>1, <2>2, <2>3 DEF IndexAgrees
<1>11. ASSUME NEW c \in Clients, NEW s \in DOMAIN subs, Read(c, s)
       PROVE  IndexAgrees'
  BY <1>11 DEF Read, rows, IndexAgrees
<1>12. CASE UNCHANGED vars
  BY <1>12 DEF vars, IndexAgrees
<1>13. CASE Anyone
  BY <1>4, <1>5, <1>8, <1>13 DEF Anyone, Deactivate
<1>14. ASSUME NEW c \in Clients, Client(c)
       PROVE  IndexAgrees'
  BY <1>5, <1>6, <1>7, <1>9, <1>10, <1>11, <1>14 DEF Client, SetActive
<1> QED
  BY <1>12, <1>13, <1>14 DEF Next

\* What is read is current, and whatever changes gets a version no client
\* has seen.
LEMMA ReadStep ==
  ASSUME TypeOK, IndexAgrees, ReadStaysTrue, [Next]_vars
  PROVE  ReadStaysTrue'
<1>1. CASE Versioned
  <2>1. /\ UNCHANGED <<seenSub, seenEv>>
        /\ \A i \in 1..idSeq : i \notin idSeq + 1..idSeq'
        /\ \A v \in Versions : v <= rowSeq => v \notin rowSeq + 1..rowSeq'
    BY <1>1, Counters DEF Versioned, Versions
  <2>2. ASSUME NEW c \in Clients, NEW s \in DOMAIN subs' \cap DOMAIN seenSub[c],
               seenSub[c][s].version = subs'[s].version
        PROVE  /\ seenSub[c][s].active = subs'[s].active
               /\ seenSub[c][s].limit = subs'[s].limit
               /\ seenSub[c][s].events = subs'[s].events
    <3>1. seenSub[c][s].version \in Versions /\ seenSub[c][s].version <= rowSeq
      BY DEF TypeOK, Subscription
    <3>2. Kept(s)
      BY <1>1, <2>1, <2>2, <3>1 DEF Versioned
    <3> QED
      BY <2>2, <3>2 DEF Kept, ReadStaysTrue
  <2>3. ASSUME NEW c \in Clients, NEW e \in DOMAIN events' \cap DOMAIN seenEv[c],
               seenEv[c][e].version = events'[e].version
        PROVE  seenEv[c][e] = events'[e]
    <3>1. seenEv[c][e].version \in Versions /\ seenEv[c][e].version <= rowSeq
      BY DEF TypeOK, SubscriptionEvent
    <3>2. e \in DOMAIN events /\ events'[e] = events[e]
      BY <1>1, <2>1, <2>3, <3>1 DEF Versioned
    <3> QED
      BY <2>3, <3>2 DEF ReadStaysTrue
  <2> QED
    BY <2>1, <2>2, <2>3 DEF ReadStaysTrue
<1>2. ASSUME NEW c \in Clients, NEW s \in DOMAIN subs, Read(c, s)
      PROVE  ReadStaysTrue'
  <2>1. /\ seenSub' = [seenSub EXCEPT ![c] = [x \in {s} |-> subs[x]]]
        /\ seenEv' = [seenEv EXCEPT ![c] = [x \in subs[s].events |-> events[x]]]
        /\ UNCHANGED <<subs, events>>
    BY <1>2 DEF Read, Restrict, rows
  <2>2. /\ DOMAIN seenSub = Clients /\ DOMAIN seenEv = Clients
    BY DEF TypeOK
  <2> QED
    BY <2>1, <2>2 DEF ReadStaysTrue
<1>3. CASE UNCHANGED vars
  BY <1>3 DEF vars, ReadStaysTrue
<1> QED
  BY <1>1, <1>2, <1>3, StepVersioned

\* A client whose row version is current knows what it writes over.
LEMMA StepInformed ==
  ASSUME TypeOK, IndexAgrees, ReadStaysTrue, Next
  PROVE  Informed
<1>1. ASSUME NEW c \in Clients, NEW s, IfMatch(c, s)
      PROVE  KnowsSub(c, s)
  BY <1>1 DEF IfMatch, KnowsSub, ReadStaysTrue
<1>2. ASSUME NEW c \in Clients, NEW e, IfMatchEvent(c, e)
      PROVE  KnowsEvent(c, e)
  BY <1>2 DEF IfMatchEvent, KnowsEvent, ReadStaysTrue
<1>3. ASSUME NEW s \in DOMAIN subs, NEW on \in BOOLEAN, Switch(s, on)
      PROVE  Informed
  <2>1. /\ DOMAIN subs' = DOMAIN subs /\ DOMAIN events' = DOMAIN events
        /\ \A t \in DOMAIN subs : subs'[t].limit = subs[t].limit
        /\ \A e \in DOMAIN events : events'[e].targets = events[e].targets
    BY <1>3, SwitchIs
  <2> QED
    BY <2>1 DEF Informed
<1>4. ASSUME NEW x \in Endpoints, NEW k \in Keys, NEW m \in Emails,
             NEW l \in Limits, NEW on \in BOOLEAN, Create(x, k, m, l, on)
      PROVE  Informed
  <2>1. idSeq + 1 \notin DOMAIN subs
    BY Counters DEF TypeOK
  <2> QED
    BY <1>4, <2>1 DEF Create, Put, Informed
<1>5. ASSUME NEW s \in DOMAIN subs, NEW t \in Types, NEW T \in SUBSET Targets,
             AddEvent(s, t, T)
      PROVE  Informed
  <2>1. idSeq + 1 \notin DOMAIN events
    BY Counters DEF TypeOK
  <2>2. /\ DOMAIN subs' = DOMAIN subs
        /\ \A y \in DOMAIN subs : subs'[y].limit = subs[y].limit
    BY <1>5 DEF AddEvent, TypeOK, Subscription
  <2>3. \A e \in DOMAIN events : e \in DOMAIN events' /\ events'[e] = events[e]
    BY <1>5, <2>1 DEF AddEvent, Put
  <2> QED
    BY <2>2, <2>3 DEF Informed
<1>6. ASSUME NEW c \in Clients, NEW s \in DOMAIN subs, NEW p \in UpdateParams,
             Update(c, s, p) \/ UpdateRefused(c, s, p)
      PROVE  Informed
  <2>1. KnowsSub(c, s) /\ UNCHANGED events
    BY <1>1, <1>6 DEF Update, UpdateRefused
  <2>2. /\ DOMAIN subs' = DOMAIN subs
        /\ \A y \in DOMAIN subs : y # s => subs'[y] = subs[y]
    BY <1>6 DEF Update, UpdateRefused
  <2> QED
    BY <2>1, <2>2 DEF Informed
<1>7. ASSUME NEW c \in Clients, NEW s \in DOMAIN subs, Delete(c, s)
      PROVE  Informed
  <2>1. KnowsSub(c, s)
    BY <1>1, <1>7 DEF Delete
  <2>2. /\ DOMAIN subs' = DOMAIN subs \ {s}
        /\ \A y \in DOMAIN subs' : subs'[y] = subs[y]
        /\ DOMAIN events' = DOMAIN events \ subs[s].events
        /\ \A e \in DOMAIN events' : events'[e] = events[e]
    BY <1>7 DEF Delete, Without, Restrict
  <2>3. \A e \in subs[s].events \cap DOMAIN events : KnowsEvent(c, e)
    BY <2>1, <2>2 DEF IndexAgrees, KnowsSub, KnowsEvent
  <2> QED
    BY <2>1, <2>2, <2>3 DEF Informed
<1>8. ASSUME NEW c \in Clients, NEW e \in DOMAIN events, NEW T \in SUBSET Targets,
             ReplaceTargets(c, e, T)
      PROVE  Informed
  <2>1. KnowsEvent(c, e) /\ UNCHANGED subs
    BY <1>2, <1>8 DEF ReplaceTargets
  <2>2. /\ DOMAIN events' = DOMAIN events
        /\ \A y \in DOMAIN events : y # e => events'[y] = events[y]
    BY <1>8 DEF ReplaceTargets
  <2> QED
    BY <2>1, <2>2 DEF Informed
<1>9. ASSUME NEW c \in Clients, NEW e \in DOMAIN events, DeleteEvent(c, e)
      PROVE  Informed
  <2>1. KnowsEvent(c, e)
    BY <1>2, <1>9 DEF DeleteEvent
  <2>2. /\ DOMAIN subs' = DOMAIN subs
        /\ \A y \in DOMAIN subs : subs'[y].limit = subs[y].limit
    BY <1>9 DEF DeleteEvent, TypeOK, Subscription
  <2>3. /\ DOMAIN events' = DOMAIN events \ {e}
        /\ \A y \in DOMAIN events' : events'[y] = events[y]
    BY <1>9 DEF DeleteEvent, Without, Restrict
  <2> QED
    BY <2>1, <2>2, <2>3 DEF Informed
<1>10. ASSUME NEW c \in Clients, NEW s \in DOMAIN subs, Read(c, s)
       PROVE  Informed
  BY <1>10 DEF Read, rows, Informed
<1>11. CASE Anyone
  BY <1>3, <1>4, <1>5, <1>11 DEF Anyone, Deactivate
<1>12. ASSUME NEW c \in Clients, Client(c)
       PROVE  Informed
  BY <1>3, <1>6, <1>7, <1>8, <1>9, <1>10, <1>12 DEF Client, SetActive
<1> QED
  BY <1>11, <1>12 DEF Next

(***************************************************************************)
(* Who is told                                                             *)
(***************************************************************************)

\* Every event has its subscription's status, and no two subscriptions have
\* one endpoint.
FanInv ==
  /\ \A e \in DOMAIN events : events[e].active = subs[events[e].sub].active
  /\ \A s, t \in DOMAIN subs : subs[s].endpoint = subs[t].endpoint => s = t

\* An endpoint that nobody else has is given to one subscription.
LEMMA OneEach ==
  ASSUME \A s, t \in DOMAIN subs : subs[s].endpoint = subs[t].endpoint => s = t,
         NEW s, DOMAIN subs' = DOMAIN subs \cup {s},
         \A t \in DOMAIN subs : t # s => subs'[t] = subs[t],
         \A t \in DOMAIN subs \ {s} : subs[t].endpoint # subs'[s].endpoint
  PROVE  \A q, t \in DOMAIN subs' : subs'[q].endpoint = subs'[t].endpoint => q = t
OBVIOUS

\* Every step keeps the events at their subscription's status, and the
\* endpoints apart.
LEMMA FanStep ==
  ASSUME TypeOK, IndexAgrees, FanInv, [Next]_vars
  PROVE  FanInv'
<1>1. /\ \A s \in DOMAIN subs : s \in 1..idSeq /\ subs[s] \in Subscription
      /\ \A e \in DOMAIN events : e \in 1..idSeq /\ events[e] \in SubscriptionEvent
  BY DEF TypeOK
<1>2. idSeq + 1 \notin 1..idSeq
  BY Counters
<1>3. \A e \in DOMAIN events : /\ events[e].sub \in DOMAIN subs
                               /\ e \in subs[events[e].sub].events
  BY DEF IndexAgrees
<1>4. ASSUME NEW x \in Endpoints, NEW k \in Keys, NEW m \in Emails,
             NEW l \in Limits, NEW on \in BOOLEAN, Create(x, k, m, l, on)
      PROVE  FanInv'
  <2>1. /\ DOMAIN subs' = DOMAIN subs \cup {idSeq + 1} /\ subs'[idSeq + 1].endpoint = x
        /\ \A t \in DOMAIN subs : t # idSeq + 1 => subs'[t] = subs[t]
        /\ \A t \in DOMAIN subs : subs[t].endpoint # x
        /\ UNCHANGED events
    BY <1>4 DEF Create, Put, Taken
  <2>2. \A q, t \in DOMAIN subs' : subs'[q].endpoint = subs'[t].endpoint => q = t
    BY <2>1, OneEach DEF FanInv
  <2>3. \A s \in DOMAIN subs : subs'[s] = subs[s]
    BY <1>1, <1>2, <2>1
  <2>4. \A e \in DOMAIN events : events[e].active = subs'[events[e].sub].active
    BY <1>3, <2>3 DEF FanInv
  <2> QED
    BY <2>1, <2>2, <2>4 DEF FanInv
<1>5. ASSUME NEW s \in DOMAIN subs, NEW on \in BOOLEAN, Switch(s, on)
      PROVE  FanInv'
  <2>1. /\ DOMAIN subs' = DOMAIN subs /\ DOMAIN events' = DOMAIN events
        /\ \A t \in DOMAIN subs : subs'[t].endpoint = subs[t].endpoint
        /\ \A t \in DOMAIN subs : t # s => subs'[t] = subs[t]
        /\ \A e \in DOMAIN events : events'[e].sub = events[e].sub
    BY <1>5, SwitchIs
  <2>2. /\ subs'[s].active = on
        /\ \A e \in subs[s].events \cap DOMAIN events : events'[e].active = on
        /\ \A e \in DOMAIN events \ subs[s].events : events'[e] = events[e]
    BY <1>5, SwitchIs
  <2>3. \A e \in DOMAIN events : e \in subs[s].events <=> events[e].sub = s
    BY DEF IndexAgrees
  <2>4. ASSUME NEW e \in DOMAIN events
        PROVE  events'[e].active = subs'[events[e].sub].active
    <3>1. CASE events[e].sub = s
      BY <2>2, <2>3, <3>1
    <3>2. CASE events[e].sub # s
      BY <1>3, <2>1, <2>2, <2>3, <3>2 DEF FanInv
    <3> QED
      BY <3>1, <3>2
  <2>5. \A q, t \in DOMAIN subs' : subs'[q].endpoint = subs'[t].endpoint => q = t
    BY <2>1 DEF FanInv
  <2> QED
    BY <2>1, <2>4, <2>5 DEF FanInv
<1>6. ASSUME NEW c \in Clients, NEW s \in DOMAIN subs, NEW p \in UpdateParams,
             Update(c, s, p) \/ UpdateRefused(c, s, p)
      PROVE  FanInv'
  <2>1. UNCHANGED events /\ \A t \in DOMAIN subs \ {s} : subs[t].endpoint # p.endpoint
    BY <1>6 DEF Update, UpdateRefused, Taken
  <2>2. PICK n : n = rowSeq + 1
    OBVIOUS
  <2>3. PICK t : t \in {Moved(subs[s], p), Addressed(subs[s], p),
                        [Limited(subs[s], p) EXCEPT !.version = n]}
                 /\ subs' = [subs EXCEPT ![s] = t]
    BY <1>6, <2>2 DEF Update, UpdateRefused
  <2>4. t.active = subs[s].active /\ t.endpoint = Given(subs[s].endpoint, p.endpoint)
    <3>1. CASE t = [Limited(subs[s], p) EXCEPT !.version = n]
      <4>1. t.active = Limited(subs[s], p).active /\ t.endpoint = Limited(subs[s], p).endpoint
        BY <1>1, <3>1 DEF Limited, Addressed, Moved, Subscription
      <4> QED
        BY <1>1, <4>1, FieldsUpdated
    <3>2. CASE t \in {Moved(subs[s], p), Addressed(subs[s], p)}
      BY <1>1, <3>2, FieldsUpdated
    <3> QED
      BY <2>3, <3>1, <3>2
  <2>5. /\ DOMAIN subs' = DOMAIN subs \cup {s} /\ subs'[s] = t
        /\ \A y \in DOMAIN subs : y # s => subs'[y] = subs[y]
    BY <2>3
  <2>6. \A y \in DOMAIN subs \ {s} : subs[y].endpoint # t.endpoint
    BY <2>1, <2>4 DEF Given, FanInv
  <2>7. \A q, y \in DOMAIN subs' : subs'[q].endpoint = subs'[y].endpoint => q = y
    BY <2>5, <2>6, OneEach DEF FanInv
  <2>8. \A y \in DOMAIN subs : subs'[y].active = subs[y].active
    BY <2>4, <2>5
  <2>9. \A e \in DOMAIN events : events[e].active = subs'[events[e].sub].active
    BY <1>3, <2>8 DEF FanInv
  <2> QED
    BY <2>1, <2>7, <2>9 DEF FanInv
<1>7. ASSUME NEW c \in Clients, NEW s \in DOMAIN subs, Delete(c, s)
      PROVE  FanInv'
  <2>1. /\ DOMAIN subs' = DOMAIN subs \ {s} /\ \A t \in DOMAIN subs' : subs'[t] = subs[t]
        /\ DOMAIN events' = DOMAIN events \ subs[s].events
        /\ \A e \in DOMAIN events' : events'[e] = events[e]
    BY <1>7 DEF Delete, Without, Restrict
  <2>2. \A e \in DOMAIN events' : events[e].sub \in DOMAIN subs'
    BY <1>3, <2>1
  <2> QED
    BY <2>1, <2>2 DEF FanInv
<1>8. ASSUME NEW s \in DOMAIN subs, NEW t \in Types, NEW T \in SUBSET Targets,
             AddEvent(s, t, T)
      PROVE  FanInv'
  <2>1. /\ DOMAIN subs' = DOMAIN subs
        /\ \A y \in DOMAIN subs : /\ subs'[y].active = subs[y].active
                                  /\ subs'[y].endpoint = subs[y].endpoint
    BY <1>1, <1>8 DEF AddEvent, Subscription
  <2>2. /\ DOMAIN events' = DOMAIN events \cup {idSeq + 1}
        /\ events'[idSeq + 1].sub = s /\ events'[idSeq + 1].active = subs[s].active
        /\ \A e \in DOMAIN events : events'[e] = events[e]
    BY <1>1, <1>2, <1>8 DEF AddEvent, Put
  <2>3. \A e \in DOMAIN events' : events'[e].active = subs'[events'[e].sub].active
    BY <1>3, <2>1, <2>2 DEF FanInv
  <2> QED
    BY <2>1, <2>3 DEF FanInv
<1>9. ASSUME NEW c \in Clients, NEW e \in DOMAIN events, NEW T \in SUBSET Targets,
             ReplaceTargets(c, e, T)
      PROVE  FanInv'
  <2>1. /\ UNCHANGED subs /\ DOMAIN events' = DOMAIN events
        /\ \A y \in DOMAIN events : /\ events'[y].sub = events[y].sub
                                    /\ events'[y].active = events[y].active
    BY <1>1, <1>9 DEF ReplaceTargets, SubscriptionEvent
  <2> QED
    BY <2>1 DEF FanInv
<1>10. ASSUME NEW c \in Clients, NEW e \in DOMAIN events, DeleteEvent(c, e)
       PROVE  FanInv'
  <2>1. PICK s \in DOMAIN subs : s = events[e].sub
    BY <1>3
  <2>2. /\ DOMAIN subs' = DOMAIN subs
        /\ \A y \in DOMAIN subs : /\ subs'[y].active = subs[y].active
                                  /\ subs'[y].endpoint = subs[y].endpoint
    BY <1>1, <1>10, <2>1 DEF DeleteEvent, Subscription
  <2>3. /\ DOMAIN events' = DOMAIN events \ {e}
        /\ \A y \in DOMAIN events' : events'[y] = events[y]
    BY <1>10 DEF DeleteEvent, Without, Restrict
  <2> QED
    BY <1>3, <2>2, <2>3 DEF FanInv
<1>11. ASSUME NEW c \in Clients, NEW s \in DOMAIN subs, Read(c, s)
       PROVE  FanInv'
  BY <1>11 DEF Read, rows, FanInv
<1>12. CASE UNCHANGED vars
  BY <1>12 DEF vars, FanInv
<1>13. CASE Anyone
  BY <1>4, <1>5, <1>8, <1>13 DEF Anyone, Deactivate
<1>14. ASSUME NEW c \in Clients, Client(c)
       PROVE  FanInv'
  BY <1>5, <1>6, <1>7, <1>9, <1>10, <1>11, <1>14 DEF Client, SetActive
<1> QED
  BY <1>12, <1>13, <1>14 DEF Next

\* Then whoever is told of an event is told rightly.
LEMMA FanFollows ==
  ASSUME IndexAgrees, FanInv
  PROVE  FanOutRight
<1> SUFFICES ASSUME NEW type \in Types, NEW touched \in SUBSET Targets
             PROVE  /\ {r.sub : r \in Recipients(type, touched)} =
                         {events[e].sub : e \in {x \in DOMAIN events :
                            /\ events[x].type = type
                            /\ events[x].targets = {} \/ events[x].targets \cap touched # {}
                            /\ \E s \in DOMAIN subs : s = events[x].sub /\ subs[s].active}}
                    /\ \A r, q \in Recipients(type, touched) :
                         subs[r.sub].endpoint = subs[q.sub].endpoint => r = q
  BY DEF FanOutRight
<1> DEFINE Told == {x \in DOMAIN subs : subs[x].active /\ Matching(x, type, touched) # {}}
           fits(x) == /\ events[x].type = type
                      /\ events[x].targets = {} \/ events[x].targets \cap touched # {}
           Fires == {x \in DOMAIN events :
                       /\ events[x].type = type
                       /\ events[x].targets = {} \/ events[x].targets \cap touched # {}
                       /\ \E s \in DOMAIN subs : s = events[x].sub /\ subs[s].active}
<1> DEFINE told(s) == [sub |-> s, event |-> Min(Matching(s, type, touched))]
<1>1. /\ \A r \in Recipients(type, touched) : r.sub \in Told /\ r = told(r.sub)
      /\ \A s \in Told : \E r \in Recipients(type, touched) : r.sub = s
  <2>1. Recipients(type, touched) = {told(s) : s \in Told}
    BY DEF Recipients
  <2>2. \A s : told(s).sub = s
    OBVIOUS
  <2> HIDE DEF Told, told
  <2> QED
    BY <2>1, <2>2
<1>2. \A s \in DOMAIN subs : Matching(s, type, touched)
        = {e \in DOMAIN events : events[e].sub = s /\ events[e].active /\ fits(e)}
  BY DEF Matching, IndexAgrees
<1>3. \A s \in Told : \E e \in Fires : events[e].sub = s
  BY <1>2
<1>4. \A e \in Fires : events[e].sub \in Told
  <2>1. ASSUME NEW e \in Fires  PROVE events[e].sub \in Told
    <3>1. /\ events[e].sub \in DOMAIN subs /\ subs[events[e].sub].active
          /\ events[e].active /\ fits(e) /\ e \in DOMAIN events
      BY DEF FanInv
    <3>2. e \in Matching(events[e].sub, type, touched)
      BY <1>2, <3>1
    <3> QED
      BY <3>1, <3>2
  <2> QED
    BY <2>1
<1>5. {r.sub : r \in Recipients(type, touched)} = {events[e].sub : e \in Fires}
  <2> HIDE DEF Told, Fires
  <2> QED
    BY <1>1, <1>3, <1>4
<1>6. ASSUME NEW r \in Recipients(type, touched), NEW q \in Recipients(type, touched),
             subs[r.sub].endpoint = subs[q.sub].endpoint
      PROVE  r = q
  <2>1. r.sub = q.sub
    BY <1>1, <1>6 DEF FanInv
  <2> QED
    BY <1>1, <2>1
<1> QED
  BY <1>5, <1>6

(***************************************************************************)
(* Theorems                                                                *)
(***************************************************************************)

StoreInv == TypeOK /\ IndexAgrees /\ ReadStaysTrue

LEMMA InitInv == Init => StoreInv
BY Counters, StoreAssumption DEF Init, StoreInv, TypeOK, IndexAgrees, ReadStaysTrue

LEMMA InvHolds == Spec => []StoreInv
<1>1. StoreInv /\ [Next]_vars => StoreInv'
  BY TypeStep, IndexStep, ReadStep DEF StoreInv
<1> QED
  BY <1>1, InitInv, PTL DEF Spec

\* The variables keep their types and no record is ahead of the counters.
\* It takes IndexAgrees: a read copies the events its list names.
THEOREM StoreTypeCorrect == Spec => []TypeOK
BY InvHolds, PTL DEF StoreInv

\* An event is in the index exactly if its subscription lists it: the events
\* of a deleted subscription are gone, whatever calls came before.
THEOREM StoreIndexAgrees == Spec => []IndexAgrees
BY InvHolds, PTL DEF StoreInv

\* A row version names what was read with it: any number of clients, with
\* writes that ask for If-Match and writes that do not.
THEOREM RowVersionNamesContents == Spec => []ReadStaysTrue
BY InvHolds, PTL DEF StoreInv

\* Nothing is deleted, resized or given other targets unseen.
THEOREM StoreNoBlindWrite == Spec => NoBlindWrite
<1>1. StoreInv /\ [Next]_vars => [Informed]_vars
  BY StepInformed DEF StoreInv
<1> QED
  BY <1>1, InvHolds, PTL DEF Spec, NoBlindWrite

\* Whoever subscribes to an event and is active is told of it, nobody else,
\* and no endpoint twice: whatever was switched, added, moved or refused.
THEOREM StoreFanOutRight == Spec => []FanOutRight
<1>1. Init => FanInv
  BY DEF Init, FanInv
<1>2. StoreInv /\ FanInv /\ [Next]_vars => FanInv'
  BY FanStep DEF StoreInv
<1>3. StoreInv /\ FanInv => FanOutRight
  BY FanFollows DEF StoreInv
<1> QED
  BY <1>1, <1>2, <1>3, InvHolds, PTL DEF Spec
=============================================================================
