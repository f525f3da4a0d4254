--------------------------- MODULE SubscriptionStore ---------------------------
(***************************************************************************)
(* The store of webhook subscriptions (internal/bankingcircle/             *)
(* subscription.go) and the clients that drive it through the self-service *)
(* API (cmd/bankingcircle/subscriptions.go).                               *)
(*                                                                         *)
(* Every method holds the store's mutex, so a call is one action.  What    *)
(* makes it hard is between the calls: a client reads a subscription, and  *)
(* writes later with the row version it read as If-Match, while other      *)
(* clients and the delivery's retry schedule write too.  A refused call    *)
(* changes nothing and is no action, except an update, which may already   *)
(* have set some fields when it is refused.                                *)
(***************************************************************************)
EXTENDS Naturals, FiniteSets, Functions, FiniteSetsExt

CONSTANTS
  Clients,
  Endpoints, Keys, Emails, Limits,  \* valid values of the fields
  Types,                            \* event types
  Targets,                          \* ids of accounts and companies
  Absent,                           \* a field the request leaves out
  Invalid,                          \* a value validation refuses
  MaxIds,                           \* bound: subscriptions and events made
  MaxRows                           \* bound: row versions minted

ASSUME StoreAssumption ==
  /\ MaxIds \in Nat /\ MaxRows \in Nat
  /\ Absent \notin Endpoints \cup Keys \cup Emails \cup Limits \cup {Invalid}
  /\ Invalid \notin Endpoints \cup Keys \cup Emails \cup Limits

VARIABLES
  subs,    \* s.subs: from the ids in use to subscriptions
  events,  \* s.events, the index of the events of all of them
  idSeq,   \* ids handed out
  rowSeq,  \* s.rowSeq, row versions handed out
  seenSub, \* the subscription each client read last, with its id
  seenEv   \* and the events that came with it

rows == <<subs, events, idSeq, rowSeq>>
seen == <<seenSub, seenEv>>
vars == <<subs, events, idSeq, rowSeq, seenSub, seenEv>>
-----------------------------------------------------------------------------
Ids == 1..MaxIds
Versions == 1..MaxRows

\* events stands for the ids on sub.Events, whose order is the order of ids.
Subscription == [endpoint: Endpoints, key: Keys, email: Emails, limit: Limits,
                 active: BOOLEAN, events: SUBSET Ids, version: Versions]

SubscriptionEvent == [sub: Ids, type: Types, active: BOOLEAN,
                      targets: SUBSET Targets, version: Versions]

UpdateParams == [endpoint: Endpoints \cup {Absent}, key: Keys \cup {Absent, Invalid},
                 email: Emails \cup {Absent}, limit: Limits \cup {Absent, Invalid}]

Put(f, x, v) == [y \in DOMAIN f \cup {x} |-> IF y = x THEN v ELSE f[y]]
Without(f, S) == Restrict(f, DOMAIN f \ S)

\* The next n row versions are rowSeq + 1 to rowSeq + n.
Mint(n) == rowSeq + n <= MaxRows /\ rowSeq' = rowSeq + n

\* checkRowVersion, for a client that echoes the version it read.
IfMatch(c, s) ==
  /\ s \in DOMAIN subs \cap DOMAIN seenSub[c]
  /\ seenSub[c][s].version = subs[s].version

IfMatchEvent(c, e) ==
  /\ e \in DOMAIN events \cap DOMAIN seenEv[c]
  /\ seenEv[c][e].version = events[e].version
-----------------------------------------------------------------------------
Taken(endpoint, S) == \E s \in S : subs[s].endpoint = endpoint

\* Slip: the endpoint of another subscription is accepted.
CreateAnywhere(endpoint, key, email, limit, active) ==
  /\ idSeq < MaxIds
  /\ subs' = Put(subs, idSeq + 1,
                 [endpoint |-> endpoint, key |-> key, email |-> email, limit |-> limit,
                  active |-> active, events |-> {}, version |-> rowSeq + 1])
  /\ idSeq' = idSeq + 1 /\ Mint(1)
  /\ UNCHANGED <<events, seen>>

Create(endpoint, key, email, limit, active) ==
  /\ idSeq < MaxIds
  /\ ~Taken(endpoint, DOMAIN subs)
  /\ subs' = Put(subs, idSeq + 1,
                 [endpoint |-> endpoint, key |-> key, email |-> email, limit |-> limit,
                  active |-> active, events |-> {}, version |-> rowSeq + 1])
  /\ idSeq' = idSeq + 1 /\ Mint(1)
  /\ UNCHANGED <<events, seen>>

Given(old, new) == IF new = Absent THEN old ELSE new

\* The fields an update sets before it looks at the key, and before it looks
\* at the batch limit.
Moved(sub, p) == [sub EXCEPT !.endpoint = Given(@, p.endpoint)]
Addressed(sub, p) == [Moved(sub, p) EXCEPT !.key = Given(@, p.key),
                                           !.email = Given(@, p.email)]
Limited(sub, p) == [Addressed(sub, p) EXCEPT !.limit = Given(@, p.limit)]

UpdateRefused(c, s, p) ==
  /\ IfMatch(c, s)
  /\ ~Taken(p.endpoint, DOMAIN subs \ {s})
  /\ \/ p.key = Invalid /\ subs' = [subs EXCEPT ![s] = Moved(@, p)]
     \/ p.key # Invalid /\ p.limit = Invalid /\ subs' = [subs EXCEPT ![s] = Addressed(@, p)]
  /\ UNCHANGED <<events, idSeq, rowSeq, seen>>

Update(c, s, p) ==
  /\ IfMatch(c, s)
  /\ ~Taken(p.endpoint, DOMAIN subs \ {s})
  /\ Invalid \notin {p.key, p.limit}
  /\ subs' = [subs EXCEPT ![s] = [Limited(@, p) EXCEPT !.version = rowSeq + 1]]
  /\ Mint(1)
  /\ UNCHANGED <<events, idSeq, seen>>

\* setActiveLocked: every event follows its subscription, each with a new
\* version, the subscription's own version last.
Switch(s, on) ==
  LET mine == subs[s].events
      place(e) == Cardinality({f \in mine : f <= e})
  IN
  /\ events' = [e \in DOMAIN events |->
                  IF e \in mine
                  THEN [events[e] EXCEPT !.active = on, !.version = rowSeq + place(e)]
                  ELSE events[e]]
  /\ subs' = [subs EXCEPT ![s].active = on, ![s].version = rowSeq + Cardinality(mine) + 1]
  /\ Mint(Cardinality(mine) + 1)
  /\ UNCHANGED <<idSeq, seen>>

SetActive(c, s, on) == IfMatch(c, s) /\ Switch(s, on)

\* Retry exhaustion: no If-Match.
Deactivate(s) == s \in DOMAIN subs /\ Switch(s, FALSE)

\* Slip: the subscription goes and its events stay in the index.
DeleteAlone(c, s) ==
  /\ IfMatch(c, s)
  /\ subs' = Without(subs, {s})
  /\ UNCHANGED <<events, idSeq, rowSeq, seen>>

\* Slip: no If-Match is asked for.
DeleteBlind(c, s) ==
  /\ s \in DOMAIN subs
  /\ events' = Without(events, subs[s].events)
  /\ subs' = Without(subs, {s})
  /\ UNCHANGED <<idSeq, rowSeq, seen>>

Delete(c, s) ==
  /\ IfMatch(c, s)
  /\ events' = Without(events, subs[s].events)
  /\ subs' = Without(subs, {s})
  /\ UNCHANGED <<idSeq, rowSeq, seen>>
-----------------------------------------------------------------------------
(***************************************************************************)
(* Events of a subscription                                                *)
(***************************************************************************)

\* Slip: the subscription keeps its version.
AddEventQuietly(s, type, targets) ==
  /\ s \in DOMAIN subs /\ idSeq < MaxIds
  /\ \A e \in subs[s].events : events[e].type # type
  /\ events' = Put(events, idSeq + 1,
                   [sub |-> s, type |-> type, active |-> subs[s].active,
                    targets |-> targets, version |-> rowSeq + 1])
  /\ subs' = [subs EXCEPT ![s].events = @ \cup {idSeq + 1}]
  /\ idSeq' = idSeq + 1 /\ Mint(1)
  /\ UNCHANGED seen

\* No If-Match; the new event takes its subscription's status.
AddEvent(s, type, targets) ==
  /\ s \in DOMAIN subs /\ idSeq < MaxIds
  /\ \A e \in subs[s].events : events[e].type # type
  /\ events' = Put(events, idSeq + 1,
                   [sub |-> s, type |-> type, active |-> subs[s].active,
                    targets |-> targets, version |-> rowSeq + 1])
  /\ subs' = [subs EXCEPT ![s].events = @ \cup {idSeq + 1}, ![s].version = rowSeq + 2]
  /\ idSeq' = idSeq + 1 /\ Mint(2)
  /\ UNCHANGED seen

\* The event's version changes, its subscription's does not.
ReplaceTargets(c, e, targets) ==
  /\ IfMatchEvent(c, e) /\ targets # {}
  /\ events' = [events EXCEPT ![e].targets = targets, ![e].version = rowSeq + 1]
  /\ Mint(1)
  /\ UNCHANGED <<subs, idSeq, seen>>

DeleteEvent(c, e) ==
  LET s == events[e].sub IN
  /\ IfMatchEvent(c, e)
  /\ IF s \in DOMAIN subs
     THEN /\ subs' = [subs EXCEPT ![s].events = @ \ {e}, ![s].version = rowSeq + 1]
          /\ Mint(1)
     ELSE UNCHANGED <<subs, rowSeq>>
  /\ events' = Without(events, {e})
  /\ UNCHANGED <<idSeq, seen>>
-----------------------------------------------------------------------------
\* GET /subscription and the answers that carry a subscription.
Read(c, s) ==
  /\ s \in DOMAIN subs
  /\ seenSub' = [seenSub EXCEPT ![c] = Restrict(subs, {s})]
  /\ seenEv' = [seenEv EXCEPT ![c] = Restrict(events, subs[s].events)]
  /\ UNCHANGED rows

\* The events of s that fire for an event type and the ids a payment touches.
Matching(s, type, touched) ==
  {e \in subs[s].events : /\ events[e].active /\ events[e].type = type
                          /\ events[e].targets # {} => events[e].targets \cap touched # {}}

\* Who is told, and the event that matched: the first on the subscription.
Recipients(type, touched) ==
  {[sub |-> s, event |-> Min(Matching(s, type, touched))] :
     s \in {x \in DOMAIN subs : subs[x].active /\ Matching(x, type, touched) # {}}}

Init ==
  /\ subs = <<>> /\ events = <<>>
  /\ idSeq = 0 /\ rowSeq = 0
  /\ seenSub = [c \in Clients |-> <<>>] /\ seenEv = [c \in Clients |-> <<>>]

Anyone ==
  \/ \E x \in Endpoints, k \in Keys, m \in Emails, l \in Limits, on \in BOOLEAN :
       Create(x, k, m, l, on)
  \/ \E s \in DOMAIN subs, t \in Types, T \in SUBSET Targets : AddEvent(s, t, T)
  \/ \E s \in DOMAIN subs : Deactivate(s)

Client(c) ==
  \/ \E s \in DOMAIN subs :
       \/ Read(c, s) \/ Delete(c, s)
       \/ \E on \in BOOLEAN : SetActive(c, s, on)
       \/ \E p \in UpdateParams : Update(c, s, p) \/ UpdateRefused(c, s, p)
  \/ \E e \in DOMAIN events :
       DeleteEvent(c, e) \/ \E T \in SUBSET Targets : ReplaceTargets(c, e, T)

Next == Anyone \/ \E c \in Clients : Client(c)

Spec == Init /\ [][Next]_vars
-----------------------------------------------------------------------------
(***************************************************************************)
(* Properties                                                              *)
(***************************************************************************)

\* Every variable has its type, and no record bears a version still to come.
TypeOK ==
  /\ idSeq \in 0..MaxIds /\ rowSeq \in 0..MaxRows
  /\ DOMAIN subs \cup DOMAIN events \subseteq 1..idSeq
  /\ \A s \in DOMAIN subs : subs[s] \in Subscription /\ subs[s].version <= rowSeq
  /\ \A e \in DOMAIN events : events[e] \in SubscriptionEvent /\ events[e].version <= rowSeq
  /\ DOMAIN seenSub = Clients /\ DOMAIN seenEv = Clients
  /\ \A c \in Clients :
       /\ \A s \in DOMAIN seenSub[c] :
            s \in 1..idSeq /\ seenSub[c][s] \in Subscription /\ seenSub[c][s].version <= rowSeq
       /\ \A e \in DOMAIN seenEv[c] :
            e \in 1..idSeq /\ seenEv[c][e] \in SubscriptionEvent /\ seenEv[c][e].version <= rowSeq

\* The index and the lists agree: an event is in the index exactly if it is
\* on the list of the subscription it names, so that no event of a deleted
\* subscription can be written to.
IndexAgrees ==
  /\ \A s \in DOMAIN subs : subs[s].events = {e \in DOMAIN events : events[e].sub = s}
  /\ \A e \in DOMAIN events : events[e].sub \in DOMAIN subs

\* Who is told of an event is decided by the subscription being active and by
\* the type and targets asked for; one endpoint is told once.
FanOutRight ==
  \A type \in Types, touched \in SUBSET Targets :
    /\ {r.sub : r \in Recipients(type, touched)} =
         {events[e].sub : e \in {x \in DOMAIN events :
            /\ events[x].type = type
            /\ events[x].targets = {} \/ events[x].targets \cap touched # {}
            /\ \E s \in DOMAIN subs : s = events[x].sub /\ subs[s].active}}
    /\ \A r, q \in Recipients(type, touched) : subs[r.sub].endpoint = subs[q.sub].endpoint => r = q

\* What a client was told holds for as long as its row version is current:
\* whether the subscription is active, its batch limit and its events, and
\* an event's status and targets.
ReadStaysTrue ==
  \A c \in Clients :
    /\ \A s \in DOMAIN subs \cap DOMAIN seenSub[c] :
         seenSub[c][s].version = subs[s].version =>
           /\ seenSub[c][s].active = subs[s].active
           /\ seenSub[c][s].limit = subs[s].limit
           /\ seenSub[c][s].events = subs[s].events
    /\ \A e \in DOMAIN events \cap DOMAIN seenEv[c] :
         seenEv[c][e].version = events[e].version => seenEv[c][e] = events[e]

\* The client's last answer tells what the subscription is now; what the
\* event is now, or that it is on a subscription that this step deletes.
KnowsSub(c, s) ==
  /\ s \in DOMAIN seenSub[c]
  /\ seenSub[c][s].limit = subs[s].limit /\ seenSub[c][s].active = subs[s].active
  /\ seenSub[c][s].events = subs[s].events

KnowsEvent(c, e) ==
  \/ e \in DOMAIN seenEv[c] /\ seenEv[c][e] = events[e]
  \/ /\ events[e].sub \in DOMAIN seenSub[c] \ DOMAIN subs'
     /\ e \in seenSub[c][events[e].sub].events

Informed ==
  /\ \A s \in DOMAIN subs :
       (s \notin DOMAIN subs' \/ subs'[s].limit # subs[s].limit) =>
         \E c \in Clients : KnowsSub(c, s)
  /\ \A e \in DOMAIN events :
       (e \notin DOMAIN events' \/ events'[e].targets # events[e].targets) =>
         \E c \in Clients : KnowsEvent(c, e)

\* A subscription is deleted or given another batch limit, and an event
\* deleted or given other targets, only while there is a client that knows
\* what it was: when every client's last answer is out of date, nobody's
\* write goes through.  (A step does not say whose it is.)
NoBlindWrite == [][Informed]_vars

\* The client's row version of s is current, so that If-Match lets it write,
\* and the endpoint is not the one it read.
Misinformed(c, s) ==
  /\ s \in DOMAIN seenSub[c]
  /\ seenSub[c][s].version = subs[s].version
  /\ seenSub[c][s].endpoint # subs[s].endpoint

\* Documented: a client that has not read the current state cannot write over
\* it (subscription.go:359-361).  A client whose own update was refused may
\* have left another endpoint than it read; nobody else's version may be
\* current without the endpoint it was read with, so at most one client is
\* misinformed.
ReadEndpointStaysTrue ==
  \A s \in DOMAIN subs : \A c, d \in Clients :
    Misinformed(c, s) /\ Misinformed(d, s) => c = d
=============================================================================
