------------------------------ MODULE MCSettlement ------------------------------
(***************************************************************************)
(* Instances of Settlement for TLC.                                        *)
(***************************************************************************)
EXTENDS Settlement, TLC

CONSTANTS f1, f2

\* A morning file, and the afternoon's confirmation of it.
OneFile == f1 :> "morning"
TwoFiles == (f1 :> "morning") @@ (f2 :> "afternoon")
Owes1 == f1 :> Mids
Owes2 == (f1 :> Mids) @@ (f2 :> Mids)

\* Operators leave the records of the batch alone.
LedgerLeftAlone ==
  making' = making =>
    \A r \in FromLedger \cap DOMAIN records \cap DOMAIN records' : records'[r] = records[r]
=============================================================================
