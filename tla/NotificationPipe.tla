--------------------------- MODULE NotificationPipe ---------------------------
(***************************************************************************)
(* What the dispatcher promises about each notification, with no           *)
(* goroutines, batches, timers or retries: it moves until it is            *)
(* delivered, retained or parked; only the end of its subscription loses   *)
(* it; a pause parks, and lifting the pause releases all that is parked.   *)
(***************************************************************************)
EXTENDS Naturals, Sequences

CONSTANTS
  Subs,     \* subscription ids
  MaxBurst  \* bound: notifications produced in one step

VARIABLES
  to,     \* the subscription each notification is for
  place,  \* where each notification is
  alive,  \* subscriptions that have not been deleted
  held    \* subscriptions whose delivery is paused

vars == <<to, place, alive, held>>

Places == {"moving", "parked", "retained", "delivered", "dropped"}

Mine(s) == {n \in DOMAIN to : to[n] = s}

\* A non-empty group of s's notifications goes from one place to another.
Move(s, from, dest) ==
  \E N \in SUBSET {n \in Mine(s) : place[n] = from} :
    /\ N # {}
    /\ place' = [n \in DOMAIN place |-> IF n \in N THEN dest ELSE place[n]]

Init ==
  /\ to = <<>>
  /\ place = <<>>
  /\ alive = Subs
  /\ held = {}

Produce(s) ==
  /\ \E k \in 1..MaxBurst :
       /\ to' = to \o [i \in 1..k |-> s]
       /\ place' = place \o [i \in 1..k |-> "moving"]
  /\ s \in alive
  /\ UNCHANGED <<alive, held>>

Deliver(s) == Move(s, "moving", "delivered") /\ UNCHANGED <<to, alive, held>>

Park(s) == s \in held /\ Move(s, "moving", "parked") /\ UNCHANGED <<to, alive, held>>

Retain(s) == Move(s, "moving", "retained") /\ UNCHANGED <<to, alive, held>>

\* Everything retained for s sets off again.
Redeliver(s) ==
  /\ place' = [n \in DOMAIN place |->
                 IF n \in Mine(s) /\ place[n] = "retained" THEN "moving" ELSE place[n]]
  /\ UNCHANGED <<to, alive, held>>

Drop(s) ==
  /\ s \notin alive
  /\ Move(s, "moving", "dropped")
  /\ UNCHANGED <<to, alive, held>>

Pause(s) == held' = held \cup {s} /\ UNCHANGED <<to, place, alive>>

\* Lifting the pause releases everything parked behind it, at once.
Resume(s) ==
  /\ held' = held \ {s}
  /\ place' = [n \in DOMAIN place |->
                 IF n \in Mine(s) /\ place[n] = "parked" THEN "moving" ELSE place[n]]
  /\ UNCHANGED <<to, alive>>

Delete(s) == alive' = alive \ {s} /\ UNCHANGED <<to, place, held>>

Next ==
  \E s \in Subs :
    \/ Produce(s) \/ Deliver(s) \/ Park(s) \/ Retain(s) \/ Redeliver(s)
    \/ Drop(s) \/ Pause(s) \/ Resume(s) \/ Delete(s)

Spec == Init /\ [][Next]_vars
=============================================================================
