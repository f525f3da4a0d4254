---------------------------- MODULE MCDispatcher ----------------------------
(***************************************************************************)
(* Instances of Dispatcher for TLC.                                        *)
(***************************************************************************)
EXTENDS Dispatcher, TLC

\* The schedule's mails on a two-retry schedule: the last retry carries the
\* deactivation mail, the one before it a warning.
MCEmail == [r \in 1..MaxRetries |-> IF r = MaxRetries THEN "deactivation" ELSE "warning"]

Symmetry == Permutations(Procs)
=============================================================================
