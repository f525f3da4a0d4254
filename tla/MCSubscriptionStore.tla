-------------------------- MODULE MCSubscriptionStore --------------------------
(***************************************************************************)
(* Instances of SubscriptionStore for TLC.  A run looks at the versions    *)
(* two clients write by, or at who is told of a payment, which takes more  *)
(* records and only one client.                                            *)
(***************************************************************************)
EXTENDS SubscriptionStore, TLC

VARIABLE subject

MCInit == Init /\ subject \in {"versions", "fan out"}

\* One client at most, and one batch limit.
Alone ==
  /\ Cardinality({c \in Clients : DOMAIN seenSub'[c] # {}}) <= 1
  /\ Cardinality({subs'[s].limit : s \in DOMAIN subs'}) <= 1

MCNext ==
  /\ Next /\ UNCHANGED subject
  /\ IF subject = "fan out" THEN Alone ELSE idSeq' <= 3 /\ rowSeq' <= 5

MCSpec == MCInit /\ [][MCNext]_<<vars, subject>>

Symmetry == Permutations(Clients) \cup Permutations(Endpoints)
              \cup Permutations(Limits) \cup Permutations(Types)
=============================================================================
